---- MODULE Spec2Model ----
(***************************************************************************)
(* Authentication security layer of alx-polly: the rate limiter           *)
(* (rate-limiter.ts), the failed-attempt tracker (error-handling.ts), the  *)
(* device verifier (identity-verification.ts) and the login / register     *)
(* actions that compose them (auth-actions.ts).                            *)
(*                                                                         *)
(* Text that the code encodes or parses (identifiers, cookie names and     *)
(* values, fingerprints) is a sequence of one-character strings, so that   *)
(* Buffer.from(s).toString('base64'), Number.toString and parseInt are     *)
(* computed character by character.  Messages shown to the caller are      *)
(* plain strings.                                                          *)
(***************************************************************************)
EXTENDS Integers, Sequences, FiniteSets, TLC

VARIABLES
    now,              \* Date.now(), milliseconds
    ipLimitStore,     \* rate-limiter.ts:11   Map<string, RateLimitRecord>
    emailLimitStore,  \* rate-limiter.ts:12   Map<string, RateLimitRecord>
    cookieJar,        \* the caller's cookies: name -> [value, expires]
    knownDevices,     \* identity-verification.ts:134  Map<string, DeviceInfo[]>
    last,             \* the operation that ran last: its arguments and its result
    window,           \* history: per store and identifier, the calls of the current window
    tracked,          \* history: per identifier, the failed attempts written and when
    inflight,         \* per request being handled: its step, its cookies and its answer
    votes             \* the rows of the table votes, in the order of their insertion

vars == <<now, ipLimitStore, emailLimitStore, cookieJar, knownDevices, last, window,
         tracked, inflight, votes>>

-----------------------------------------------------------------------------
(* Bounds of the model *)

\* the clock advances in steps of StepMs, at most MaxSteps of them
MaxSteps == 4
\* ... and in single milliseconds, at most MaxJitter of them inside one step
MaxJitter == 1
\* checks made for one identifier inside one window
MaxWindowCalls == 6
\* value the failed-attempt counter may reach by direct calls
MaxFailed == 6
\* entries of one user's device list
MaxDevices == 3
\* login and register attempts without a client IP inside one window
MaxUnknownIpCalls == 1
\* steps of StepMs the clock makes while login and register attempts are made
MaxAppSteps == 2
\* steps of the clock in the second specification of the application
MaxAuthSteps == 1
\* checks of one e-mail address where two addresses are in use
MaxFrameChecks == 2
\* characters of a user agent or an address given to generateFingerprint alone
MaxPartLen == 3
\* rows of the table votes
MaxVotes == 3

\* half a window
StepMs == (15 * 60 * 1000) \div 2

-----------------------------------------------------------------------------
(* Program constants *)

MAX_ATTEMPTS == 5
WINDOW_MS == 15 * 60 * 1000
LOCKOUT_MS == 30 * 60 * 1000
\* maxAge of the failed-attempt cookie, seconds
FAILED_MAX_AGE == 15 * 60
\* isAccountLocked: attempts >= 5
LOCK_THRESHOLD == 5

\* JavaScript's undefined and null, as seen by || and by the caller
Undefined == "<undefined>"
Null == "<null>"

-----------------------------------------------------------------------------
(* Text: characters, numbers, base64 *)

\* printable ASCII, code 32 first (the three characters a string cannot hold
\* are named)
AsciiChars ==
    << " ", "!", "<dquote>", "#", "$", "%", "&", "'", "(", ")", "*", "+", ",", "-", ".", "/",
       "0", "1", "2", "3", "4", "5", "6", "7", "8", "9", ":", ";", "<", "=", ">", "?",
       "@", "A", "B", "C", "D", "E", "F", "G", "H", "I", "J", "K", "L", "M", "N", "O",
       "P", "Q", "R", "S", "T", "U", "V", "W", "X", "Y", "Z", "[", "<backslash>", "]", "^", "_",
       "<backtick>", "a", "b", "c", "d", "e", "f", "g", "h", "i", "j", "k", "l", "m", "n", "o",
       "p", "q", "r", "s", "t", "u", "v", "w", "x", "y", "z", "{", "|", "}", "~" >>

\* the code of every character, computed once
CharCodes ==
    [c \in { AsciiChars[i] : i \in 1..Len(AsciiChars) } |->
        31 + (CHOOSE i \in 1..Len(AsciiChars) : AsciiChars[i] = c)]

\* Buffer.from(text): the byte of one (ASCII) character
CharCode(c) == CharCodes[c]

Base64Alphabet ==
    << "A", "B", "C", "D", "E", "F", "G", "H", "I", "J", "K", "L", "M", "N", "O", "P",
       "Q", "R", "S", "T", "U", "V", "W", "X", "Y", "Z", "a", "b", "c", "d", "e", "f",
       "g", "h", "i", "j", "k", "l", "m", "n", "o", "p", "q", "r", "s", "t", "u", "v",
       "w", "x", "y", "z", "0", "1", "2", "3", "4", "5", "6", "7", "8", "9", "+", "/" >>

Sextet(n) == Base64Alphabet[n + 1]

RECURSIVE Base64Bytes(_)
\* toString('base64') of a byte sequence: three bytes give four characters, a
\* rest of one or two bytes is padded with '='
Base64Bytes(b) ==
    IF Len(b) = 0 THEN << >>
    ELSE IF Len(b) = 1 THEN
        << Sextet(b[1] \div 4), Sextet((b[1] % 4) * 16), "=", "=" >>
    ELSE IF Len(b) = 2 THEN
        << Sextet(b[1] \div 4), Sextet((b[1] % 4) * 16 + (b[2] \div 16)),
           Sextet((b[2] % 16) * 4), "=" >>
    ELSE
        << Sextet(b[1] \div 4), Sextet((b[1] % 4) * 16 + (b[2] \div 16)),
           Sextet((b[2] % 16) * 4 + (b[3] \div 64)), Sextet(b[3] % 64) >>
        \o Base64Bytes(SubSeq(b, 4, Len(b)))

\* Buffer.from(text).toString('base64')
Base64(text) == Base64Bytes([i \in 1..Len(text) |-> CharCode(text[i])])

Digits == << "0", "1", "2", "3", "4", "5", "6", "7", "8", "9" >>

RECURSIVE NumberToString(_)
\* Number.prototype.toString of a non-negative integer
NumberToString(n) ==
    IF n < 10 THEN << Digits[n + 1] >>
    ELSE NumberToString(n \div 10) \o << Digits[(n % 10) + 1] >>

IsDigit(c) == \E d \in 1..10 : Digits[d] = c

DigitValue(c) == (CHOOSE d \in 1..10 : Digits[d] = c) - 1

NaN == "<NaN>"

RECURSIVE ParseDigits(_, _)
ParseDigits(s, acc) ==
    IF Len(s) = 0 \/ ~IsDigit(s[1]) THEN acc
    ELSE ParseDigits(Tail(s), acc * 10 + DigitValue(s[1]))

\* parseInt of a text without sign or blanks: its leading digits, NaN without any
ParseInt(s) ==
    IF Len(s) = 0 \/ ~IsDigit(s[1]) THEN NaN ELSE ParseDigits(s, 0)

\* Math.ceil(a / b) for a >= 0, b > 0
CeilDiv(a, b) == (a + b - 1) \div b

-----------------------------------------------------------------------------
(* Inputs *)

\* submitted e-mail addresses
Emails == { << "a", "@", "x" >>, << "b", "@", "x" >> }
\* client IP addresses
ClientIps == { << "1", ".", "2" >> }
\* what the caller passes as clientIp: an address or nothing (undefined or '')
ClientIpArgs == ClientIps \cup { << >> }
UnknownIp == << "u", "n", "k", "n", "o", "w", "n", "-", "i", "p" >>
\* the e-mail address login and register are tried with
AppEmails == { << "a", "@", "x" >> }
\* every value login and register can use as the IP identifier
Ips == ClientIps \cup { UnknownIp }

-----------------------------------------------------------------------------
(* Map<K, V>: a function whose domain is the keys present *)

EmptyMap == [k \in {} |-> k]
MapHas(m, k) == k \in DOMAIN m
MapSet(m, k, v) == [x \in (DOMAIN m) \cup {k} |-> IF x = k THEN v ELSE m[x]]

-----------------------------------------------------------------------------
(* rate-limiter.ts *)

\* a variant of FreshRecord that starts counting at 0
FreshRecord_FromZero(t) == [count |-> 0, firstAttempt |-> t, lastAttempt |-> t]

\* the record written at lines 31-35 and 43-47
FreshRecord(t) == [count |-> 1, firstAttempt |-> t, lastAttempt |-> t]

\* a variant of WindowExpired that measures the window with the lockout's length
WindowExpired_ByLockout(record, t) == (t - record.firstAttempt) > LOCKOUT_MS

\* line 30: (now - record.firstAttempt) > WINDOW_MS
WindowExpired(record, t) == (t - record.firstAttempt) > WINDOW_MS

\* a variant of AttemptsExhausted that is off by one
AttemptsExhausted_Strict(record) == record.count > MAX_ATTEMPTS

\* line 40: record.count >= MAX_ATTEMPTS
AttemptsExhausted(record) == record.count >= MAX_ATTEMPTS

\* line 42: now - record.lastAttempt > LOCKOUT_MS
LockoutElapsed(record, t) == (t - record.lastAttempt) > LOCKOUT_MS

\* lines 52-58: the answer while the lockout lasts
LockoutResult(record, t) ==
    LET timeRemaining == CeilDiv(LOCKOUT_MS - (t - record.lastAttempt), 1000)
    IN  [limited |-> TRUE,
         remaining |-> 0,
         timeRemaining |-> timeRemaining,
         message |-> "Too many attempts. Please try again in "
                     \o ToString(CeilDiv(timeRemaining, 60)) \o " minutes."]

\* a variant of IncrementedRecord whose increment is lost
IncrementedRecord_Lost(record, t) == [record EXCEPT !.lastAttempt = t]

\* lines 62-63: record.count += 1; record.lastAttempt = now
IncrementedRecord(record, t) == [record EXCEPT !.count = @ + 1, !.lastAttempt = t]

\* a variant of IncrementResult that limits one check later
IncrementResult_Late(record) ==
    LET remaining == MAX_ATTEMPTS - record.count
    IN  [limited |-> remaining < 0,
         remaining |-> remaining,
         message |-> IF remaining < 0
                     THEN "Too many attempts. Please try again later."
                     ELSE Undefined]

\* lines 67-72: the answer after an increment
IncrementResult(record) ==
    LET remaining == MAX_ATTEMPTS - record.count
    IN  [limited |-> remaining <= 0,
         remaining |-> remaining,
         message |-> IF remaining <= 0
                     THEN "Too many attempts. Please try again later."
                     ELSE Undefined]

\* a variant of CheckRateLimit that never releases an exhausted record
CheckRateLimit_NoRelease(identifier, store, t) ==
    IF ~MapHas(store, identifier)
    THEN [store |-> MapSet(store, identifier, FreshRecord(t)),
          result |-> [limited |-> FALSE, remaining |-> MAX_ATTEMPTS - 1]]
    ELSE LET record == store[identifier]
         IN  IF AttemptsExhausted(record)
             THEN [store |-> store, result |-> LockoutResult(record, t)]
             ELSE IF WindowExpired(record, t)
             THEN [store |-> MapSet(store, identifier, FreshRecord(t)),
                   result |-> [limited |-> FALSE, remaining |-> MAX_ATTEMPTS - 1]]
             ELSE LET bumped == IncrementedRecord(record, t)
                  IN  [store |-> MapSet(store, identifier, bumped),
                       result |-> IncrementResult(bumped)]

\* a variant of CheckRateLimit in which a check during the lockout renews it
CheckRateLimit_RenewLockout(identifier, store, t) ==
    IF ~MapHas(store, identifier) \/ WindowExpired(store[identifier], t)
    THEN [store |-> MapSet(store, identifier, FreshRecord(t)),
          result |-> [limited |-> FALSE, remaining |-> MAX_ATTEMPTS - 1]]
    ELSE LET record == store[identifier]
         IN  IF AttemptsExhausted(record)
             THEN [store |-> MapSet(store, identifier, [record EXCEPT !.lastAttempt = t]),
                   result |-> LockoutResult(record, t)]
             ELSE LET bumped == IncrementedRecord(record, t)
                  IN  [store |-> MapSet(store, identifier, bumped),
                       result |-> IncrementResult(bumped)]

\* checkRateLimit(identifier, store) called at time t: the store it leaves and
\* the object it returns
CheckRateLimit(identifier, store, t) ==
    IF ~MapHas(store, identifier) \/ WindowExpired(store[identifier], t)
    THEN [store |-> MapSet(store, identifier, FreshRecord(t)),
          result |-> [limited |-> FALSE, remaining |-> MAX_ATTEMPTS - 1]]
    ELSE LET record == store[identifier]
         IN  IF AttemptsExhausted(record)
             THEN IF LockoutElapsed(record, t)
                  THEN [store |-> MapSet(store, identifier, FreshRecord(t)),
                        result |-> [limited |-> FALSE, remaining |-> MAX_ATTEMPTS - 1]]
                  ELSE [store |-> store, result |-> LockoutResult(record, t)]
             ELSE LET bumped == IncrementedRecord(record, t)
                  IN  [store |-> MapSet(store, identifier, bumped),
                       result |-> IncrementResult(bumped)]

-----------------------------------------------------------------------------
(* error-handling.ts: the failed-attempt tracker, kept in a cookie *)

\* a cookie is sent as long as its expiry time lies ahead
CookieAlive(cookie, t) == t < cookie.expires

\* the cookies the browser still holds at time t
LiveCookies(jar, t) ==
    [k \in { c \in DOMAIN jar : CookieAlive(jar[c], t) } |-> jar[k]]

FailedPrefix == << "f", "a", "i", "l", "e", "d", "_" >>

\* `failed_${Buffer.from(identifier).toString('base64')}`
CookieKey(identifier) == FailedPrefix \o Base64(identifier)

\* the cookie names of the e-mails of the model, computed once
CookieKeys == [e \in Emails |-> CookieKey(e)]

\* a variant of CookieSet that leaves the expiry of a cookie it overwrites
CookieSet_KeepExpiry(jar, name, value, maxAge, t) ==
    MapSet(jar, name,
           [value |-> value,
            expires |-> IF MapHas(jar, name) /\ CookieAlive(jar[name], t)
                        THEN jar[name].expires
                        ELSE t + maxAge * 1000])

\* cookieStore.set(name, value, { maxAge }) at time t
CookieSet(jar, name, value, maxAge, t) ==
    MapSet(jar, name, [value |-> value, expires |-> t + maxAge * 1000])

\* parseInt(cookieStore.get(cookieKey)?.value || '0') at time t
ReadAttempts(jar, cookieKey, t) ==
    LET sent == MapHas(jar, cookieKey) /\ CookieAlive(jar[cookieKey], t)
        text == IF sent /\ jar[cookieKey].value # << >>
                THEN jar[cookieKey].value
                ELSE << "0" >>
    IN  ParseInt(text)

\* a variant of TrackFailedAttempt that writes back the value it read
TrackFailedAttempt_NoIncrement(identifier, jar, t) ==
    LET cookieKey == CookieKeys[identifier]
        currentAttempts == ReadAttempts(jar, cookieKey, t)
    IN  [jar |-> CookieSet(jar, cookieKey, NumberToString(currentAttempts), FAILED_MAX_AGE, t),
         result |-> currentAttempts + 1]

\* trackFailedAttempt(identifier): the cookies it leaves and the number it returns
TrackFailedAttempt(identifier, jar, t) ==
    LET cookieKey == CookieKeys[identifier]
        currentAttempts == ReadAttempts(jar, cookieKey, t)
        newAttempts == currentAttempts + 1
    IN  [jar |-> CookieSet(jar, cookieKey, NumberToString(newAttempts), FAILED_MAX_AGE, t),
         result |-> newAttempts]

\* a variant of ResetFailedAttempts that writes 1
ResetFailedAttempts_ToOne(identifier, jar, t) ==
    CookieSet(jar, CookieKeys[identifier], << "1" >>, FAILED_MAX_AGE, t)

\* resetFailedAttempts(identifier): the cookies it leaves
ResetFailedAttempts(identifier, jar, t) ==
    CookieSet(jar, CookieKeys[identifier], << "0" >>, FAILED_MAX_AGE, t)

\* a variant of IsAccountLocked that is off by one
IsAccountLocked_Strict(identifier, jar, t) ==
    ReadAttempts(jar, CookieKeys[identifier], t) > LOCK_THRESHOLD

\* isAccountLocked(identifier)
IsAccountLocked(identifier, jar, t) ==
    ReadAttempts(jar, CookieKeys[identifier], t) >= LOCK_THRESHOLD

-----------------------------------------------------------------------------
(* error-handling.ts: the error classifier.  An error is null, a string, or an *)
(* object with a message (a string, "" if it has none) and the text String()  *)
(* gives for it.                                                               *)

NullError == [kind |-> "null"]
StringError(text) == [kind |-> "string", text |-> text]
ObjectError(message, string) == [kind |-> "object", message |-> message, string |-> string]

\* !error
IsFalsy(error) ==
    \/ error.kind = "null"
    \/ error.kind = "string" /\ error.text = ""

\* error.message || String(error), for an error that is not falsy
ErrorMessage(error) ==
    IF error.kind = "string" THEN error.text
    ELSE IF error.message # "" THEN error.message
    ELSE error.string

\* text.includes(pattern)
Includes(text, pattern) ==
    \E i \in 0..(Len(text) - Len(pattern)) :
        SubSeq(text, i + 1, i + Len(pattern)) = pattern

\* a variant of ParseAuthError that looks for "Too many requests" first
ParseAuthError_RateLimitFirst(error) ==
    IF IsFalsy(error)
    THEN [message |-> "Unknown error", type |-> "unknown"]
    ELSE LET errorMessage == ErrorMessage(error)
         IN  IF Includes(errorMessage, "Too many requests")
             THEN [message |-> "Too many attempts. Please try again later",
                   type |-> "rate_limited", retryAfter |-> 900]
             ELSE IF Includes(errorMessage, "Invalid login credentials")
             THEN [message |-> "Invalid email or password", type |-> "invalid_credentials"]
             ELSE IF Includes(errorMessage, "Email not confirmed")
             THEN [message |-> "Please verify your email before logging in",
                   type |-> "verification_required"]
             ELSE [message |-> errorMessage, type |-> "unknown"]

\* parseAuthError(error)
ParseAuthError(error) ==
    IF IsFalsy(error)
    THEN [message |-> "Unknown error", type |-> "unknown"]
    ELSE LET errorMessage == ErrorMessage(error)
         IN  IF Includes(errorMessage, "Invalid login credentials")
             THEN [message |-> "Invalid email or password", type |-> "invalid_credentials"]
             ELSE IF Includes(errorMessage, "Too many requests")
             THEN [message |-> "Too many attempts. Please try again later",
                   type |-> "rate_limited", retryAfter |-> 900]
             ELSE IF Includes(errorMessage, "Email not confirmed")
             THEN [message |-> "Please verify your email before logging in",
                   type |-> "verification_required"]
             ELSE [message |-> errorMessage, type |-> "unknown"]

\* the values of AuthErrorType
AuthErrorTypes ==
    { "invalid_credentials", "rate_limited", "account_locked",
      "verification_required", "network_error", "unknown" }

\* pieces of provider messages, and the messages made of two of them
MessagePieces ==
    { "", "Invalid login credentials", "Too many requests", "Email not confirmed",
      "User already registered", "invalid login credentials", "Too many  requests" }
MessageJoints == { "", ": " }
Messages == { a \o j \o b : a \in MessagePieces, j \in MessageJoints, b \in MessagePieces }

\* the errors handed to the classifier
ErrorValues ==
    { NullError }
        \cup { StringError(m) : m \in Messages }
        \cup { ObjectError(m, "AuthApiError: " \o m) : m \in Messages }
        \cup { ObjectError("", s) : s \in { "[object Object]", "AuthApiError" } }

-----------------------------------------------------------------------------
(* History of the tracker: for each identifier, the failed attempts recorded *)
(* since the last reset or expiry, and the time of the last write.  An entry *)
(* is dropped once more than the cookie's lifetime has passed over it.       *)

FailedTtlMs == FAILED_MAX_AGE * 1000

\* the count the history holds for an identifier at time t
TrackedCount(tr, identifier, t) ==
    IF MapHas(tr, identifier) /\ t - tr[identifier].at < FailedTtlMs
    THEN tr[identifier].count
    ELSE 0

\* the time of the first of the failed attempts counted at time t
TrackedSince(tr, identifier, t) ==
    IF TrackedCount(tr, identifier, t) > 0 THEN tr[identifier].since ELSE t

\* since: the time of the first of the failed attempts counted
TrackedAfterFailure(tr, identifier, t) ==
    LET count == TrackedCount(tr, identifier, t)
    IN  MapSet(tr, identifier,
               [count |-> count + 1, at |-> t,
                since |-> IF count = 0 THEN t ELSE tr[identifier].since])

TrackedAfterReset(tr, identifier, t) ==
    MapSet(tr, identifier, [count |-> 0, at |-> t, since |-> t])

TrackedAt(tr, t) ==
    [k \in { i \in DOMAIN tr : t - tr[i].at <= FailedTtlMs } |-> tr[k]]

-----------------------------------------------------------------------------
(* identity-verification.ts: the device list *)

\* a variant of FindDevice that looks at the first entry only
FindDevice_FirstOnly(userDevices, fingerprint) ==
    IF Len(userDevices) > 0 /\ userDevices[1].fingerprint = fingerprint THEN 1 ELSE 0

\* userDevices.find(device => device.fingerprint === fingerprint): its index, 0 if none
FindDevice(userDevices, fingerprint) ==
    LET hits == { i \in 1..Len(userDevices) : userDevices[i].fingerprint = fingerprint }
    IN  IF hits = {} THEN 0 ELSE CHOOSE i \in hits : \A j \in hits : i <= j

\* checkDeviceVerification(userId, fingerprint, userAgent) at time t: the device
\* map it leaves and the object it returns
CheckDeviceVerification(userId, fingerprint, userAgent, devices, t) ==
    LET userDevices == IF MapHas(devices, userId) THEN devices[userId] ELSE << >>
        knownDevice == FindDevice(userDevices, fingerprint)
    IN  IF knownDevice # 0
        THEN [devices |-> MapSet(devices, userId,
                                 [userDevices EXCEPT ![knownDevice].lastSeen = t]),
              result |-> [isKnownDevice |-> TRUE, requiresVerification |-> FALSE]]
        ELSE [devices |-> MapSet(devices, userId,
                                 Append(userDevices, [fingerprint |-> fingerprint,
                                                      userAgent |-> userAgent,
                                                      lastSeen |-> t])),
              result |-> [isKnownDevice |-> FALSE, requiresVerification |-> TRUE]]

\* `${userAgent}:${ip}` in base64
GenerateFingerprint(userAgent, ip) == Base64(userAgent \o << ":" >> \o ip)

-----------------------------------------------------------------------------
(* identity-verification.ts: the suspicion check *)

FailedAttemptsPrefix ==
    << "f", "a", "i", "l", "e", "d", "_", "a", "t", "t", "e", "m", "p", "t", "s", "_" >>

\* `failed_attempts_${userId}`
SuspicionCookieKey(userId) == FailedAttemptsPrefix \o userId

\* parseInt(text, 10) of a text without sign or blanks: whether it is NaN, and
\* the number its leading digits give otherwise
ParseIntRadix10(text) ==
    IF Len(text) = 0 \/ ~IsDigit(text[1])
    THEN [nan |-> TRUE, value |-> 0]
    ELSE [nan |-> FALSE, value |-> ParseDigits(text, 0)]

\* failedAttemptsCookie ? parseInt(failedAttemptsCookie.value, 10) : 0
ReadSuspicionCount(userId, jar, t) ==
    LET name == SuspicionCookieKey(userId)
    IN  IF MapHas(jar, name) /\ CookieAlive(jar[name], t)
        THEN ParseIntRadix10(jar[name].value)
        ELSE [nan |-> FALSE, value |-> 0]

\* !userDevices.some(device => device.fingerprint === fingerprint)
IsNewDevice(userId, fingerprint, devices) ==
    LET userDevices == IF MapHas(devices, userId) THEN devices[userId] ELSE << >>
    IN  ~ \E i \in 1..Len(userDevices) : userDevices[i].fingerprint = fingerprint

\* a variant of CheckSuspiciousActivity that looks at the count alone
CheckSuspiciousActivity_CountOnly(userId, fingerprint, userAgent, jar, devices, t) ==
    LET failedAttempts == ReadSuspicionCount(userId, jar, t)
    IN  ~failedAttempts.nan /\ failedAttempts.value >= 3

\* checkSuspiciousActivity(userId, fingerprint, userAgent) at time t; a
\* comparison with NaN is false
CheckSuspiciousActivity(userId, fingerprint, userAgent, jar, devices, t) ==
    LET failedAttempts == ReadSuspicionCount(userId, jar, t)
    IN  IF ~failedAttempts.nan /\ failedAttempts.value >= 3
        THEN TRUE
        ELSE /\ IsNewDevice(userId, fingerprint, devices)
             /\ ~failedAttempts.nan /\ failedAttempts.value > 0

-----------------------------------------------------------------------------
(* Inputs of the device verifier *)

\* the user-agent header of a login or register request
UserAgentHeaders == { << "F", "x" >> }
UnknownAgent == << "u", "n", "k", "n", "o", "w", "n" >>
UserAgents == UserAgentHeaders \cup { UnknownAgent }
\* the identity provider's user ids
UserIds == { << "u", "1" >>, << "u", "2" >> }
\* the values of the cookie failed_attempts_<userId> a request can carry; << >>
\* for a request without it
SentCounts ==
    { << >>, << "0" >>, << "1" >>, << "2" >>, << "3" >>, << "1", "2" >>, << "x" >> }
\* the fingerprint of every agent and address of the model, computed once
FingerprintOf == [ua \in UserAgents, ip \in Ips |-> GenerateFingerprint(ua, ip)]

-----------------------------------------------------------------------------
(* History of the rate limiter: for each store and identifier, when the      *)
(* current window of WINDOW_MS began and how many checks were made in it.    *)

StoreNames == { "ip", "email" }

\* the window after one more check at time t
WindowAfterCheck(w, identifier, t) ==
    IF MapHas(w, identifier) /\ t - w[identifier].start <= WINDOW_MS
    THEN MapSet(w, identifier, [w[identifier] EXCEPT !.calls = @ + 1])
    ELSE MapSet(w, identifier, [start |-> t, calls |-> 1])

\* the checks made for identifier in the window that holds time t
CallsInWindow(w, identifier, t) ==
    IF MapHas(w, identifier) /\ t - w[identifier].start <= WINDOW_MS
    THEN w[identifier].calls
    ELSE 0

\* a further check of identifier stays inside the model's bound
MayCheck(w, identifier, t) == CallsInWindow(w, identifier, t) < MaxWindowCalls

\* a further attempt from this address stays inside the model's bounds
MayAttemptFrom(w, ip, t) ==
    /\ MayCheck(w, ip, t)
    /\ ip = UnknownIp => CallsInWindow(w, ip, t) < MaxUnknownIpCalls

\* the record a store holds for an identifier, as the caller of a check sees it
RecordOrNone(store, identifier) ==
    IF MapHas(store, identifier) THEN << store[identifier] >> ELSE << >>

-----------------------------------------------------------------------------
(* Initial state: empty stores, no cookie, no device *)

\* the requests the server handles at the same time
Requests == { 1, 2 }

\* a request slot that carries no request
Idle == [pc |-> "idle"]

Init ==
    /\ now = 0
    /\ ipLimitStore = EmptyMap
    /\ emailLimitStore = EmptyMap
    /\ cookieJar = EmptyMap
    /\ knownDevices = EmptyMap
    /\ last = [op |-> "init"]
    /\ window = [s \in StoreNames |-> EmptyMap]
    /\ tracked = EmptyMap
    /\ inflight = [p \in Requests |-> Idle]
    /\ votes = << >>

-----------------------------------------------------------------------------
(* Time *)

\* the clock moves on by d milliseconds
Advance(d) ==
    /\ UNCHANGED <<inflight, votes>>
    /\ d = StepMs => now \div StepMs < MaxSteps
    /\ d = 1 => now % StepMs < MaxJitter
    /\ now' = now + d
    /\ cookieJar' = LiveCookies(cookieJar, now + d)
    /\ tracked' = TrackedAt(tracked, now + d)
    /\ last' = [op |-> "advance",
                expired |-> { k \in DOMAIN cookieJar : ~CookieAlive(cookieJar[k], now + d) }]
    /\ UNCHANGED <<ipLimitStore, emailLimitStore, knownDevices, window>>

-----------------------------------------------------------------------------
(* Calls of the rate limiter's exported functions *)

\* checkIpRateLimit(ip)
CheckIpRateLimit(ip) ==
    /\ UNCHANGED <<inflight, votes>>
    /\ MayCheck(window["ip"], ip, now)
    /\ LET r == CheckRateLimit(ip, ipLimitStore, now)
       IN  /\ ipLimitStore' = r.store
           /\ last' = [op |-> "checkRateLimit", store |-> "ip", identifier |-> ip,
                       before |-> RecordOrNone(ipLimitStore, ip),
                       result |-> r.result]
    /\ window' = [window EXCEPT !["ip"] = WindowAfterCheck(@, ip, now)]
    /\ UNCHANGED <<now, emailLimitStore, cookieJar, knownDevices, tracked>>

\* a variant of CheckEmailRateLimit that works on the store of the IP addresses
CheckEmailRateLimit_IpStore(email) ==
    /\ UNCHANGED <<inflight, votes>>
    /\ MayCheck(window["email"], email, now)
    /\ LET r == CheckRateLimit(email, ipLimitStore, now)
       IN  /\ ipLimitStore' = r.store
           /\ last' = [op |-> "checkRateLimit", store |-> "email", identifier |-> email,
                       before |-> RecordOrNone(emailLimitStore, email),
                       result |-> r.result]
    /\ window' = [window EXCEPT !["email"] = WindowAfterCheck(@, email, now)]
    /\ UNCHANGED <<now, emailLimitStore, cookieJar, knownDevices, tracked>>

\* checkEmailRateLimit(email)
CheckEmailRateLimit(email) ==
    /\ UNCHANGED <<inflight, votes>>
    /\ MayCheck(window["email"], email, now)
    /\ LET r == CheckRateLimit(email, emailLimitStore, now)
       IN  /\ emailLimitStore' = r.store
           /\ last' = [op |-> "checkRateLimit", store |-> "email", identifier |-> email,
                       before |-> RecordOrNone(emailLimitStore, email),
                       result |-> r.result]
    /\ window' = [window EXCEPT !["email"] = WindowAfterCheck(@, email, now)]
    /\ UNCHANGED <<now, ipLimitStore, cookieJar, knownDevices, tracked>>

\* resetRateLimits()
ResetRateLimits ==
    /\ UNCHANGED <<inflight, votes>>
    /\ ipLimitStore' = EmptyMap
    /\ emailLimitStore' = EmptyMap
    /\ window' = [s \in StoreNames |-> EmptyMap]
    /\ last' = [op |-> "resetRateLimits"]
    /\ UNCHANGED <<now, cookieJar, knownDevices, tracked>>

-----------------------------------------------------------------------------
(* Calls of the tracker's and the device verifier's exported functions *)

\* trackFailedAttempt(identifier)
TrackFailedAttemptCall(identifier) ==
    /\ UNCHANGED <<inflight, votes>>
    /\ TrackedCount(tracked, identifier, now) < MaxFailed
    /\ LET r == TrackFailedAttempt(identifier, cookieJar, now)
       IN  /\ cookieJar' = r.jar
           /\ last' = [op |-> "trackFailedAttempt", identifier |-> identifier,
                       previous |-> TrackedCount(tracked, identifier, now),
                       result |-> r.result]
    /\ tracked' = TrackedAfterFailure(tracked, identifier, now)
    /\ UNCHANGED <<now, ipLimitStore, emailLimitStore, knownDevices, window>>

\* resetFailedAttempts(identifier)
ResetFailedAttemptsCall(identifier) ==
    /\ UNCHANGED <<inflight, votes>>
    /\ cookieJar' = ResetFailedAttempts(identifier, cookieJar, now)
    /\ last' = [op |-> "resetFailedAttempts", identifier |-> identifier]
    /\ tracked' = TrackedAfterReset(tracked, identifier, now)
    /\ UNCHANGED <<now, ipLimitStore, emailLimitStore, knownDevices, window>>

\* isAccountLocked(identifier)
IsAccountLockedCall(identifier) ==
    /\ UNCHANGED <<inflight, votes>>
    /\ last' = [op |-> "isAccountLocked", identifier |-> identifier,
                result |-> IsAccountLocked(identifier, cookieJar, now)]
    /\ UNCHANGED <<now, ipLimitStore, emailLimitStore, cookieJar, knownDevices,
                   window, tracked>>

\* checkDeviceVerification(userId, fingerprint, userAgent)
CheckDeviceVerificationCall(userId, fingerprint, userAgent) ==
    /\ UNCHANGED <<inflight, votes>>
    /\ MapHas(knownDevices, userId) => Len(knownDevices[userId]) < MaxDevices
    /\ LET r == CheckDeviceVerification(userId, fingerprint, userAgent, knownDevices, now)
       IN  /\ knownDevices' = r.devices
           /\ last' = [op |-> "checkDeviceVerification", userId |-> userId,
                       fingerprint |-> fingerprint, userAgent |-> userAgent,
                       before |-> IF MapHas(knownDevices, userId)
                                  THEN knownDevices[userId] ELSE << >>,
                       result |-> r.result]
    /\ UNCHANGED <<now, ipLimitStore, emailLimitStore, cookieJar, window, tracked>>

\* the cookies of a request of the browser that carries, besides, the cookie name
\* with the given value (none if the value is << >>)
RequestCookiesWith(name, value) ==
    IF value = << >>
    THEN cookieJar
    ELSE MapSet(cookieJar, name, [value |-> value, expires |-> now + 1])

\* user agents and addresses with and without the separator, as in
\* 'Mozilla/5.0 (rv:109.0)' and '::1'
FingerprintParts ==
    UNION { [1..n -> { "F", ":" }] : n \in 1..MaxPartLen }

\* generateFingerprint(userAgent, ip)
GenerateFingerprintCall(userAgent, ip) ==
    /\ UNCHANGED <<inflight, votes>>
    /\ last' = [op |-> "generateFingerprint", userAgent |-> userAgent, ip |-> ip,
                result |-> GenerateFingerprint(userAgent, ip)]
    /\ UNCHANGED <<now, ipLimitStore, emailLimitStore, cookieJar, knownDevices,
                   window, tracked>>

\* checkSuspiciousActivity(userId, fingerprint, userAgent), the request carrying
\* the cookie failed_attempts_<userId> with the value sent
CheckSuspiciousActivityCall(userId, fingerprint, userAgent, sent) ==
    /\ UNCHANGED <<inflight, votes>>
    /\ last' = [op |-> "checkSuspiciousActivity", userId |-> userId,
                fingerprint |-> fingerprint, sent |-> sent,
                result |-> CheckSuspiciousActivity(
                               userId, fingerprint, userAgent,
                               RequestCookiesWith(SuspicionCookieKey(userId), sent),
                               knownDevices, now)]
    /\ UNCHANGED <<now, ipLimitStore, emailLimitStore, cookieJar, knownDevices,
                   window, tracked>>

\* parseAuthError(error)
ParseAuthErrorCall(error) ==
    /\ UNCHANGED <<inflight, votes>>
    /\ last' = [op |-> "parseAuthError", error |-> error, result |-> ParseAuthError(error)]
    /\ UNCHANGED <<now, ipLimitStore, emailLimitStore, cookieJar, knownDevices,
                   window, tracked>>

-----------------------------------------------------------------------------
(* rbac.ts and admin/layout.tsx: role checks.  The caller's user and the      *)
(* answer of the role store come from the identity provider with the request. *)

\* enum UserRole
UserRoles == { "user", "admin", "moderator" }

\* what supabase.auth.getUser() can answer: no user (<< >>) or a user
GetUserOutcomes == { << >> } \cup { << u >> : u \in UserIds }

\* the role column of a row of user_roles
StoredRoles == UserRoles \cup { Null, "superadmin" }

\* what the query on user_roles can answer: an error or none, and no row (<< >>)
\* or a row
RoleLookupOutcomes ==
    { [error |-> e, data |-> d] :
        e \in BOOLEAN, d \in { << >> } \cup { << [role |-> r] >> : r \in StoredRoles } }

\* a variant of CheckUserRole in which an admin passes every check
CheckUserRole_Hierarchy(requiredRole, user, lookup) ==
    IF user = << >>
    THEN [authorized |-> FALSE, role |-> Null]
    ELSE IF lookup.error \/ lookup.data = << >>
    THEN [authorized |-> "user" = requiredRole, role |-> "user"]
    ELSE [authorized |-> lookup.data[1].role \in { requiredRole, "admin" },
          role |-> lookup.data[1].role]

\* checkUserRole(requiredRole), lines 187-216 (and 32-61)
CheckUserRole(requiredRole, user, lookup) ==
    IF user = << >>
    THEN [authorized |-> FALSE, role |-> Null]
    ELSE IF lookup.error \/ lookup.data = << >>
    THEN [authorized |-> "user" = requiredRole, role |-> "user"]
    ELSE [authorized |-> lookup.data[1].role = requiredRole,
          role |-> lookup.data[1].role]

\* a variant of WithRoleProtection that never throws
WithRoleProtection_FallThrough(requiredRole, user, lookup) ==
    [threw |-> FALSE, error |-> Null]

\* withRoleProtection(requiredRole), lines 222-228 (and 67-73): whether it threw,
\* and what
WithRoleProtection(requiredRole, user, lookup) ==
    IF ~CheckUserRole(requiredRole, user, lookup).authorized
    THEN [threw |-> TRUE,
          error |-> "Unauthorized: You do not have permission to access this resource"]
    ELSE [threw |-> FALSE, error |-> Null]

\* checkUserRole(requiredRoles), lines 117-142: the variant with a set of roles,
\* session the session's user (<< >> without a session), profile the row of
\* profiles (<< >> without one)
CheckUserRoleIn(requiredRoles, session, profile) ==
    IF session = << >> THEN FALSE
    ELSE IF profile = << >> THEN FALSE
    ELSE profile[1].role \in requiredRoles

\* what redirect('/unauthorized') at line 168 does: the module of lines 74-171
\* does not import redirect, so the call raises a ReferenceError unless the
\* build supplies next/navigation's redirect, which throws NEXT_REDIRECT
RedirectOutcomes == { "NEXT_REDIRECT;/unauthorized", "ReferenceError: redirect is not defined" }

\* protectRoute(), lines 163-170, the function withRoleProtection(requiredRoles)
\* returns
ProtectRoute(requiredRoles, session, profile, redirected) ==
    IF ~CheckUserRoleIn(requiredRoles, session, profile)
    THEN [threw |-> TRUE, error |-> redirected]
    ELSE [threw |-> FALSE, error |-> Null]

\* a variant of AdminLayout that asks for the role user
AdminLayout_UserRole(user, lookup) ==
    IF ~CheckUserRole("user", user, lookup).authorized
    THEN [rendered |-> FALSE, redirect |-> "/"]
    ELSE [rendered |-> TRUE, redirect |-> Null]

\* AdminLayout({ children }), admin/layout.tsx: redirect('/') throws
\* NEXT_REDIRECT, so nothing is rendered after it
AdminLayout(user, lookup) ==
    IF ~CheckUserRole("admin", user, lookup).authorized
    THEN [rendered |-> FALSE, redirect |-> "/"]
    ELSE [rendered |-> TRUE, redirect |-> Null]

\* checkUserRole(requiredRole)
CheckUserRoleCall(requiredRole, user, lookup) ==
    /\ UNCHANGED <<inflight, votes>>
    /\ last' = [op |-> "checkUserRole", requiredRole |-> requiredRole,
                user |-> user, lookup |-> lookup,
                result |-> CheckUserRole(requiredRole, user, lookup)]
    /\ UNCHANGED <<now, ipLimitStore, emailLimitStore, cookieJar, knownDevices,
                   window, tracked>>

\* a request for a page under the admin layout
AdminLayoutCall(user, lookup) ==
    /\ UNCHANGED <<inflight, votes>>
    /\ last' = [op |-> "AdminLayout", user |-> user, lookup |-> lookup,
                result |-> AdminLayout(user, lookup)]
    /\ UNCHANGED <<now, ipLimitStore, emailLimitStore, cookieJar, knownDevices,
                   window, tracked>>

\* an operation that begins with `await withRoleProtection(requiredRole)`: its
\* body runs if the guard returns
ProtectedOperation(requiredRole, user, lookup) ==
    LET guard == WithRoleProtection(requiredRole, user, lookup)
    IN  /\ last' = [op |-> "withRoleProtection", requiredRole |-> requiredRole,
                    user |-> user, lookup |-> lookup,
                    guard |-> guard, bodyRan |-> ~guard.threw]
        /\ UNCHANGED <<now, ipLimitStore, emailLimitStore, cookieJar, knownDevices,
                       window, tracked, inflight, votes>>

\* an operation that begins with `await withRoleProtection(requiredRoles)()`
ProtectedRoute(requiredRoles, session, profile, redirected) ==
    LET guard == ProtectRoute(requiredRoles, session, profile, redirected)
    IN  /\ last' = [op |-> "protectRoute", requiredRoles |-> requiredRoles,
                    session |-> session, profile |-> profile,
                    guard |-> guard, bodyRan |-> ~guard.threw]
        /\ UNCHANGED <<now, ipLimitStore, emailLimitStore, cookieJar, knownDevices,
                       window, tracked, inflight, votes>>

-----------------------------------------------------------------------------
(* auth-actions.ts: login and register *)

\* text || fallback
OrElse(text, fallback) == IF text = << >> THEN fallback ELSE text

\* check.message || fallback
MessageOr(check, fallback) ==
    IF "message" \in DOMAIN check /\ check.message # Undefined
    THEN check.message
    ELSE fallback

AccountLockedMessage ==
    "Account temporarily locked due to too many failed attempts. Please try again later."

\* a variant of LoginGate without the check of the IP limiter
LoginGate_NoIpCheck(ipCheck, emailCheck, locked) ==
    IF emailCheck.limited
    THEN MessageOr(emailCheck, "Too many login attempts for this email. Please try again later.")
    ELSE IF locked
    THEN AccountLockedMessage
    ELSE Null

\* login, lines 46-57: the error that ends the attempt before the identity
\* provider is asked, Null if there is none
LoginGate(ipCheck, emailCheck, locked) ==
    IF ipCheck.limited
    THEN MessageOr(ipCheck, "Too many login attempts from this IP. Please try again later.")
    ELSE IF emailCheck.limited
    THEN MessageOr(emailCheck, "Too many login attempts for this email. Please try again later.")
    ELSE IF locked
    THEN AccountLockedMessage
    ELSE Null

\* register, lines 133-139
RegisterGate(ipCheck, emailCheck) ==
    IF ipCheck.limited
    THEN MessageOr(ipCheck, "Too many registration attempts from this IP. Please try again later.")
    ELSE IF emailCheck.limited
    THEN MessageOr(emailCheck, "Too many registration attempts for this email. Please try again later.")
    ELSE Null

\* the identity provider: the user id of an account
UserIdOf(email) == IF email[1] = "a" THEN << "u", "1" >> ELSE << "u", "2" >>

\* what signInWithPassword can answer: an error, or the account's user
SignInOutcomes(email) ==
    { [error |-> "Invalid login credentials", user |-> << >>],
      [error |-> Null, user |-> UserIdOf(email)] }

\* what signUp can answer: an error, the new user, or no user
SignUpOutcomes(email) ==
    { [error |-> "User already registered", user |-> << >>],
      [error |-> Null, user |-> UserIdOf(email)],
      [error |-> Null, user |-> << >>] }

\* cookies(): the cookies of the request. They are the client's: a request from
\* the browser carries the cookies earlier responses set, a request from a client
\* that keeps no cookies carries none.
RequestCookies(sendsCookies) == IF sendsCookies THEN cookieJar ELSE EmptyMap

\* the Set-Cookie of a response for the cookie name: its value in the cookies
\* the handler leaves
CookiesSet(name, after) == (name :> after[name].value)

\* the error object of the identity provider with the given message
ProviderError(message) == ObjectError(message, "AuthApiError: " \o message)

\* console.log at line 98
NewDeviceLine ==
    [level |-> "log",
     text |-> "New device detected or suspicious activity. Additional verification would be required."]

\* logAuthError(error, context): the line it writes (without its timestamp)
LogAuthError(error, context) ==
    [level |-> "error", text |-> "Authentication error:",
     error |-> IF error.kind = "string" THEN error.text
               ELSE IF error.message # "" THEN error.message
               ELSE error.string,
     context |-> context]

\* login(data, clientIp) with the given user-agent header, from the browser or
\* from a client that keeps no cookies, the request carrying the cookie
\* failed_attempts_<userId> with the value sent (<< >>: not), the identity
\* provider answering outcome if it is asked
Login(email, clientIp, agentHeader, sendsCookies, sent, outcome) ==
    LET userAgent == OrElse(agentHeader, UnknownAgent)
        ip == OrElse(clientIp, UnknownIp)
        ipCheck == CheckRateLimit(ip, ipLimitStore, now)
        emailCheck == CheckRateLimit(email, emailLimitStore, now)
        jar == RequestCookies(sendsCookies)
        locked == IsAccountLocked(email, jar, now)
        gate == LoginGate(ipCheck.result, emailCheck.result, locked)
        seen == [op |-> "login", email |-> email, ip |-> ip,
                 cookies |-> sendsCookies, locked |-> locked,
                 ipCheck |-> ipCheck.result, emailCheck |-> emailCheck.result,
                 failedBefore |-> TrackedCount(tracked, email, now),
                 failedSince |-> TrackedSince(tracked, email, now),
                 readBefore |-> ReadAttempts(jar, CookieKeys[email], now)]
    IN  /\ MayAttemptFrom(window["ip"], ip, now)
        /\ MayCheck(window["email"], email, now)
        /\ ipLimitStore' = ipCheck.store
        /\ emailLimitStore' = emailCheck.store
        /\ window' = [window EXCEPT !["ip"] = WindowAfterCheck(@, ip, now),
                                    !["email"] = WindowAfterCheck(@, email, now)]
        /\ IF gate # Null
           THEN /\ last' = seen @@ [providerCalled |-> FALSE, error |-> gate,
                                    logged |-> << >>, cookiesSet |-> EmptyMap]
                /\ UNCHANGED <<cookieJar, knownDevices, tracked>>
           ELSE IF outcome.error # Null
           THEN LET attempts == TrackFailedAttempt(email, jar, now)
                IN  /\ cookieJar' = IF sendsCookies THEN attempts.jar ELSE cookieJar
                    /\ tracked' = IF sendsCookies
                                  THEN TrackedAfterFailure(tracked, email, now)
                                  ELSE tracked
                    /\ last' = seen @@ [providerCalled |-> TRUE,
                                        providerError |-> outcome.error,
                                        error |-> outcome.error,
                                        logged |-> << >>,
                                        cookiesSet |-> CookiesSet(CookieKeys[email], attempts.jar)]
                    /\ UNCHANGED knownDevices
           ELSE LET reset == ResetFailedAttempts(email, jar, now)
                    fingerprint == FingerprintOf[userAgent, ip]
                    device == CheckDeviceVerification(outcome.user, fingerprint,
                                                      userAgent, knownDevices, now)
                    isSuspicious ==
                        CheckSuspiciousActivity(
                            outcome.user, fingerprint, userAgent,
                            IF sent = << >> THEN reset
                            ELSE MapSet(reset, SuspicionCookieKey(outcome.user),
                                        [value |-> sent, expires |-> now + 1]),
                            device.devices, now)
                    flagged == ~device.result.isKnownDevice \/ isSuspicious
                IN  /\ cookieJar' = IF sendsCookies THEN reset ELSE cookieJar
                    /\ tracked' = IF sendsCookies
                                  THEN TrackedAfterReset(tracked, email, now)
                                  ELSE tracked
                    /\ knownDevices' = IF outcome.user # << >>
                                       THEN device.devices ELSE knownDevices
                    /\ last' = seen @@
                                 [providerCalled |-> TRUE, providerError |-> Null,
                                  error |-> Null,
                                  cookiesSet |-> CookiesSet(CookieKeys[email], reset),
                                  logged |-> IF outcome.user # << >> /\ flagged
                                             THEN << NewDeviceLine >> ELSE << >>] @@
                                 (IF outcome.user # << >>
                                  THEN [device |-> device.result,
                                        isSuspicious |-> isSuspicious]
                                  ELSE << >>)
        /\ UNCHANGED <<now, inflight, votes>>

\* the steps of register at which an exception is raised in the model, "none"
\* for a run without one
RegisterFaults == { "none", "headers", "createClient", "signUp", "checkDeviceVerification" }

\* the exception a step raises
ThrownBy(step) == StringError("Error: " \o step \o " failed")

\* a variant of CatchUnexpected that lets the exception go
CatchUnexpected_Rethrow(thrown) ==
    [escaped |-> TRUE, error |-> Null, logged |-> << >>]

\* register, lines 173-177: the catch block
CatchUnexpected(thrown) ==
    [escaped |-> FALSE,
     error |-> "An unexpected error occurred. Please try again later.",
     logged |-> << LogAuthError(thrown, [action |-> "register", unexpected |-> TRUE]) >>]

\* register(data, clientIp), with an exception raised at the step fault if the
\* run gets there
Register(email, clientIp, agentHeader, fault, outcome) ==
    LET userAgent == OrElse(agentHeader, UnknownAgent)
        ip == OrElse(clientIp, UnknownIp)
        ipCheck == CheckRateLimit(ip, ipLimitStore, now)
        emailCheck == CheckRateLimit(email, emailLimitStore, now)
        gate == RegisterGate(ipCheck.result, emailCheck.result)
        began == [op |-> "register", email |-> email,
                  failedBefore |-> TrackedCount(tracked, email, now)]
        seen == began @@ [ip |-> ip, ipCheck |-> ipCheck.result,
                          emailCheck |-> emailCheck.result]
        ran == [fault |-> "none", escaped |-> FALSE]
    IN  /\ UNCHANGED <<now, cookieJar, tracked, inflight, votes>>
        /\ IF fault = "headers"
           THEN /\ last' = began @@ [fault |-> fault, providerCalled |-> FALSE]
                               @@ CatchUnexpected(ThrownBy(fault))
                /\ UNCHANGED <<ipLimitStore, emailLimitStore, window, knownDevices>>
           ELSE /\ MayAttemptFrom(window["ip"], ip, now)
                /\ MayCheck(window["email"], email, now)
                /\ ipLimitStore' = ipCheck.store
                /\ emailLimitStore' = emailCheck.store
                /\ window' = [window EXCEPT !["ip"] = WindowAfterCheck(@, ip, now),
                                            !["email"] = WindowAfterCheck(@, email, now)]
                /\ IF gate # Null
                   THEN /\ last' = seen @@ ran @@ [providerCalled |-> FALSE, error |-> gate,
                                                   logged |-> << >>]
                        /\ UNCHANGED knownDevices
                   ELSE IF fault = "createClient"
                   THEN /\ last' = seen @@ [fault |-> fault, providerCalled |-> FALSE]
                                       @@ CatchUnexpected(ThrownBy(fault))
                        /\ UNCHANGED knownDevices
                   ELSE IF fault = "signUp"
                   THEN /\ last' = seen @@ [fault |-> fault, providerCalled |-> TRUE]
                                       @@ CatchUnexpected(ThrownBy(fault))
                        /\ UNCHANGED knownDevices
                   ELSE IF outcome.error # Null
                   THEN LET parsedError == ParseAuthError(ProviderError(outcome.error))
                        IN  /\ last' = seen @@ ran @@
                                         [providerCalled |-> TRUE,
                                          providerError |-> outcome.error,
                                          error |-> parsedError.message,
                                          logged |-> << LogAuthError(
                                              ProviderError(outcome.error),
                                              [action |-> "register", email |-> email,
                                               ip |-> ip,
                                               errorType |-> parsedError.type]) >>]
                            /\ UNCHANGED knownDevices
                   ELSE IF outcome.user # << >> /\ fault = "checkDeviceVerification"
                   THEN /\ last' = seen @@ [fault |-> fault, providerCalled |-> TRUE,
                                            providerError |-> Null]
                                       @@ CatchUnexpected(ThrownBy(fault))
                        /\ UNCHANGED knownDevices
                   ELSE LET fingerprint == FingerprintOf[userAgent, ip]
                            device == CheckDeviceVerification(outcome.user, fingerprint,
                                                              userAgent, knownDevices, now)
                        IN  /\ knownDevices' = IF outcome.user # << >>
                                               THEN device.devices ELSE knownDevices
                            /\ last' = seen @@ ran @@
                                         [providerCalled |-> TRUE, providerError |-> Null,
                                          error |-> Null, logged |-> << >>,
                                          suspicionChecked |-> FALSE,
                                          deviceRecorded |-> outcome.user # << >>]

-----------------------------------------------------------------------------
(* The components on their own: every sequence of calls of one component *)

NextLimiter ==
    \/ \E d \in {1, StepMs} : Advance(d)
    \/ \E ip \in ClientIps : CheckIpRateLimit(ip)
    \/ \E email \in AppEmails : CheckEmailRateLimit(email)
    \/ ResetRateLimits

SpecLimiter == Init /\ [][NextLimiter]_vars

-----------------------------------------------------------------------------
(* Failed logins handled at the same time: trackFailedAttempt, step by step *)

\* the failed attempts for the identifier whose requests are being handled
InHandling(identifier) ==
    { p \in Requests : /\ inflight[p].pc \in { "received", "tracked" }
                       /\ inflight[p].identifier = identifier }

\* a variant of CookiesOfRequest that reads the cookies the browser holds now
CookiesOfRequest_Live(sent, held) == held

\* error-handling.ts:146 `await cookies()`: the cookie store of a request holds
\* the cookies the request was sent with, not the ones the browser holds now
CookiesOfRequest(sent, held) == sent

\* the browser sends a login for the identifier that the provider will reject;
\* the request carries the cookies the browser holds at that moment
ReceiveRequest(p, identifier) ==
    /\ UNCHANGED votes
    /\ inflight[p].pc \in { "idle", "done" }
    /\ TrackedCount(tracked, identifier, now) + Cardinality(InHandling(identifier))
           < MaxFailed
    /\ inflight' = [inflight EXCEPT ![p] =
                        [pc |-> "received", identifier |-> identifier,
                         cookies |-> LiveCookies(cookieJar, now),
                         seen |-> ReadAttempts(cookieJar, CookieKeys[identifier], now)]]
    /\ UNCHANGED <<now, ipLimitStore, emailLimitStore, cookieJar, knownDevices, last,
                   window, tracked>>

\* lines 146-160: the handler of request p reads the counter from the request's
\* cookie store and sets the counter plus 1 on the response
TrackFailedAttemptStep(p) ==
    /\ UNCHANGED votes
    /\ inflight[p].pc = "received"
    /\ LET identifier == inflight[p].identifier
           store == CookiesOfRequest(inflight[p].cookies, cookieJar)
           r == TrackFailedAttempt(identifier, store, now)
       IN  /\ inflight' = [inflight EXCEPT ![p] =
                               [pc |-> "tracked", identifier |-> identifier,
                                cookies |-> inflight[p].cookies,
                                seen |-> inflight[p].seen,
                                read |-> ReadAttempts(store, CookieKeys[identifier], now),
                                setCookie |-> r.jar[CookieKeys[identifier]]]]
           /\ tracked' = TrackedAfterFailure(tracked, identifier, now)
    /\ UNCHANGED <<now, ipLimitStore, emailLimitStore, cookieJar, knownDevices, last,
                   window>>

\* the response of request p reaches the browser, which stores the cookie it sets
DeliverResponse(p) ==
    /\ UNCHANGED votes
    /\ inflight[p].pc = "tracked"
    /\ cookieJar' = MapSet(cookieJar, CookieKeys[inflight[p].identifier],
                           inflight[p].setCookie)
    /\ inflight' = [inflight EXCEPT ![p] =
                        [pc |-> "done", identifier |-> inflight[p].identifier,
                         seen |-> inflight[p].seen, read |-> inflight[p].read]]
    /\ UNCHANGED <<now, ipLimitStore, emailLimitStore, knownDevices, last, window,
                   tracked>>

NextTracker ==
    \/ \E d \in {1, StepMs} : Advance(d)
    \/ \E email \in Emails : TrackFailedAttemptCall(email)
    \/ \E email \in Emails : ResetFailedAttemptsCall(email)
    \/ \E email \in Emails : IsAccountLockedCall(email)

SpecTracker == Init /\ [][NextTracker]_vars

NextDevices ==
    \/ \E d \in {1, StepMs} : Advance(d)
    \/ \E u \in UserIds, ua \in UserAgentHeaders, ip \in Ips :
           CheckDeviceVerificationCall(u, FingerprintOf[ua, ip], ua)

SpecDevices == Init /\ [][NextDevices]_vars

NextSuspicion ==
    \/ \E u \in UserIds, ua \in UserAgentHeaders, ip \in Ips :
           CheckDeviceVerificationCall(u, FingerprintOf[ua, ip], ua)
    \/ \E u \in UserIds, ua \in UserAgentHeaders, ip \in Ips, sent \in SentCounts :
           CheckSuspiciousActivityCall(u, FingerprintOf[ua, ip], ua, sent)

SpecSuspicion == Init /\ [][NextSuspicion]_vars

NextClassifier == \E error \in ErrorValues : ParseAuthErrorCall(error)

SpecClassifier == Init /\ [][NextClassifier]_vars

NextRbac ==
    \/ \E requiredRole \in UserRoles, user \in GetUserOutcomes, lookup \in RoleLookupOutcomes :
           CheckUserRoleCall(requiredRole, user, lookup)
    \/ \E user \in GetUserOutcomes, lookup \in RoleLookupOutcomes :
           AdminLayoutCall(user, lookup)
    \/ \E requiredRole \in UserRoles, user \in GetUserOutcomes, lookup \in RoleLookupOutcomes :
           ProtectedOperation(requiredRole, user, lookup)
    \/ \E requiredRoles \in (SUBSET UserRoles) \ { {} }, session \in GetUserOutcomes,
          profile \in { << >> } \cup { << [role |-> r] >> : r \in StoredRoles },
          redirected \in RedirectOutcomes :
           ProtectedRoute(requiredRoles, session, profile, redirected)

SpecRbac == Init /\ [][NextRbac]_vars

-----------------------------------------------------------------------------
(* The application: login and register attempts over time *)

Next ==
    \/ \E d \in {1, StepMs} : (now + d) \div StepMs <= MaxAppSteps /\ Advance(d)
    \/ \E email \in AppEmails, clientIp \in ClientIpArgs, agent \in UserAgentHeaders :
           \E sendsCookies \in BOOLEAN, outcome \in SignInOutcomes(email) :
               Login(email, clientIp, agent, sendsCookies, << >>, outcome)
    \/ \E email \in AppEmails, clientIp \in ClientIpArgs, agent \in UserAgentHeaders :
           \E outcome \in SignUpOutcomes(email) :
               Register(email, clientIp, agent, "none", outcome)

Spec == Init /\ [][Next]_vars

-----------------------------------------------------------------------------
(* The application again, over fewer windows and with everything a request    *)
(* can meet: a suspicion cookie, provider errors of every class, exceptions   *)

\* what signUp can answer here
SignUpAnswers(email) ==
    SignUpOutcomes(email)
        \cup { [error |-> m, user |-> << >>] :
                 m \in { "Too many requests", "Email not confirmed" } }

\* what signInWithPassword can answer here
SignInAnswers(email) ==
    SignInOutcomes(email) \cup { [error |-> "Email not confirmed", user |-> << >>] }

\* the values of failed_attempts_<userId> a login request carries here
LoginSentCounts == { << >>, << "1" >>, << "3" >> }

NextAuth ==
    \/ now \div StepMs < MaxAuthSteps /\ Advance(StepMs)
    \/ \E email \in AppEmails, clientIp \in ClientIpArgs, agent \in UserAgentHeaders :
           \E sendsCookies \in BOOLEAN, sent \in LoginSentCounts,
              outcome \in SignInAnswers(email) :
               Login(email, clientIp, agent, sendsCookies, sent, outcome)
    \/ \E email \in AppEmails, clientIp \in ClientIpArgs, agent \in UserAgentHeaders :
           \E fault \in RegisterFaults, outcome \in SignUpAnswers(email) :
               Register(email, clientIp, agent, fault, outcome)

SpecAuth == Init /\ [][NextAuth]_vars

\* attempts and single checks with two e-mail addresses and two IP identifiers
\* a further check of the e-mail address stays inside the bound of NextFrame
MayCheckEmail(email) == CallsInWindow(window["email"], email, now) < MaxFrameChecks

NextFrame ==
    \/ \E ip \in Ips : CheckIpRateLimit(ip)
    \/ \E email \in Emails : MayCheckEmail(email) /\ CheckEmailRateLimit(email)
    \/ \E email \in Emails, clientIp \in ClientIpArgs :
           \E outcome \in SignInOutcomes(email) :
               /\ MayCheckEmail(email)
               /\ Login(email, clientIp, << "F", "x" >>, TRUE, << >>, outcome)
    \/ \E email \in Emails, clientIp \in ClientIpArgs :
           \E outcome \in SignUpOutcomes(email) :
               /\ MayCheckEmail(email)
               /\ Register(email, clientIp, << "F", "x" >>, "none", outcome)

SpecFrame == Init /\ [][NextFrame]_vars

NextFingerprint ==
    \E userAgent \in FingerprintParts, ip \in FingerprintParts :
        GenerateFingerprintCall(userAgent, ip)

SpecFingerprint == Init /\ [][NextFingerprint]_vars

\* the tracker, the device verifier and the suspicion check called one by one,
\* and login
NextLinked ==
    \/ \E email \in AppEmails : TrackFailedAttemptCall(email)
    \/ \E email \in AppEmails : ResetFailedAttemptsCall(email)
    \/ \E u \in UserIds, ip \in ClientIps :
           CheckDeviceVerificationCall(u, FingerprintOf[<< "F", "x" >>, ip], << "F", "x" >>)
    \/ \E u \in UserIds, ip \in ClientIps :
           CheckSuspiciousActivityCall(u, FingerprintOf[<< "F", "x" >>, ip], << "F", "x" >>, << >>)
    \/ \E email \in AppEmails, clientIp \in ClientIps :
           \E outcome \in SignInOutcomes(email) :
               Login(email, clientIp, << "F", "x" >>, TRUE, << >>, outcome)

SpecLinked == Init /\ [][NextLinked]_vars

-----------------------------------------------------------------------------
(* Attempts handled at the same time: the two checks of login and register *)

\* login line 39, register line 126: a request arrives and its handler waits
\* for headers()
ReceiveAttempt(p, op, email, clientIp) ==
    /\ UNCHANGED votes
    /\ inflight[p].pc \in { "idle", "done" }
    /\ inflight' = [inflight EXCEPT ![p] =
                        [pc |-> "headers", op |-> op, email |-> email,
                         ip |-> OrElse(clientIp, UnknownIp)]]
    /\ UNCHANGED <<now, ipLimitStore, emailLimitStore, cookieJar, knownDevices, last,
                   window, tracked>>

\* login lines 41-43, register lines 128-130: with the headers at hand the
\* handler makes both checks without waiting in between
RunChecks(p) ==
    /\ UNCHANGED votes
    /\ inflight[p].pc = "headers"
    /\ LET ip == inflight[p].ip
           email == inflight[p].email
           ipCheck == CheckRateLimit(ip, ipLimitStore, now)
           emailCheck == CheckRateLimit(email, emailLimitStore, now)
       IN  /\ MayAttemptFrom(window["ip"], ip, now)
           /\ MayCheck(window["email"], email, now)
           /\ ipLimitStore' = ipCheck.store
           /\ emailLimitStore' = emailCheck.store
           /\ window' = [window EXCEPT !["ip"] = WindowAfterCheck(@, ip, now),
                                       !["email"] = WindowAfterCheck(@, email, now)]
           /\ inflight' = [inflight EXCEPT ![p] =
                               [pc |-> "checked", op |-> inflight[p].op,
                                email |-> email, ip |-> ip,
                                ipCheck |-> ipCheck.result,
                                emailCheck |-> emailCheck.result]]
    /\ UNCHANGED <<now, cookieJar, knownDevices, last, tracked>>

\* the rest of the handler, which does not use the limiter's stores, ends
CompleteAttempt(p) ==
    /\ UNCHANGED votes
    /\ inflight[p].pc = "checked"
    /\ inflight' = [inflight EXCEPT ![p] =
                        [pc |-> "done", op |-> inflight[p].op,
                         email |-> inflight[p].email, ip |-> inflight[p].ip]]
    /\ UNCHANGED <<now, ipLimitStore, emailLimitStore, cookieJar, knownDevices, last,
                   window, tracked>>

NextChecks ==
    \/ Advance(StepMs)
    \/ \E p \in Requests, op \in { "login", "register" }, email \in AppEmails,
          clientIp \in ClientIpArgs : ReceiveAttempt(p, op, email, clientIp)
    \/ \E p \in Requests : RunChecks(p)
    \/ \E p \in Requests : CompleteAttempt(p)

SpecChecks == Init /\ [][NextChecks]_vars

-----------------------------------------------------------------------------
(* poll-actions.ts: submitVote, step by step at its awaits *)

\* the rows of the table polls
StoredPolls == { "p1" }
\* the poll ids a vote is submitted for
PollIds == { "p1", "p2" }
\* who supabase.auth.getUser() finds: a user, or nobody (<< >>)
Voters == { << "u", "1" >>, << >> }
\* the option indexes submitted
OptionIndexes == { 0, 1 }

\* the rows of votes with the given poll and user
VotesOf(rows, pollId, userId) ==
    { i \in 1..Len(rows) : rows[i].poll_id = pollId /\ rows[i].user_id = userId }

\* lines 188-193: select id from votes where poll_id and user_id match
ExistingVote(rows, pollId, userId) == VotesOf(rows, pollId, userId) # {}

\* lines 166-170: the action is called; createClient and getUser have answered
SubmitVote(p, user, pollId, optionIndex) ==
    /\ inflight[p].pc \in { "idle", "done" }
    /\ Len(votes) < MaxVotes
    /\ inflight' = [inflight EXCEPT ![p] =
                        [pc |-> "gotUser", op |-> "submitVote", user |-> user,
                         pollId |-> pollId, optionIndex |-> optionIndex,
                         votedBefore |-> ExistingVote(votes, pollId, user)]]
    /\ UNCHANGED <<now, ipLimitStore, emailLimitStore, cookieJar, knownDevices, last,
                   window, tracked, votes>>

\* what a call hands back, with whether it inserted a row
VoteAnswer(call, error, inserted) ==
    [pc |-> "done", op |-> "submitVote", user |-> call.user, pollId |-> call.pollId,
     optionIndex |-> call.optionIndex, votedBefore |-> call.votedBefore,
     error |-> error, inserted |-> inserted]

\* lines 176-184: the poll is looked up
FindPoll(p) ==
    /\ inflight[p].pc = "gotUser"
    /\ inflight' = [inflight EXCEPT ![p] =
                        IF inflight[p].pollId \in StoredPolls
                        THEN [inflight[p] EXCEPT !.pc = "pollFound"]
                        ELSE VoteAnswer(inflight[p], "Poll not found", FALSE)]
    /\ UNCHANGED <<now, ipLimitStore, emailLimitStore, cookieJar, knownDevices, last,
                   window, tracked, votes>>

\* lines 187-198: for a logged-in user, an earlier vote is looked up
FindExistingVote(p) ==
    /\ inflight[p].pc = "pollFound"
    /\ inflight' = [inflight EXCEPT ![p] =
                        IF /\ inflight[p].user # << >>
                           /\ ExistingVote(votes, inflight[p].pollId, inflight[p].user)
                        THEN VoteAnswer(inflight[p],
                                        "You have already voted on this poll", FALSE)
                        ELSE [inflight[p] EXCEPT !.pc = "mayInsert"]]
    /\ UNCHANGED <<now, ipLimitStore, emailLimitStore, cookieJar, knownDevices, last,
                   window, tracked, votes>>

\* lines 201-213: the row is inserted, or the database answers with an error
InsertVote(p, accepted) ==
    /\ inflight[p].pc = "mayInsert"
    /\ IF accepted
       THEN /\ votes' = Append(votes, [poll_id |-> inflight[p].pollId,
                                       user_id |-> inflight[p].user,
                                       option_index |-> inflight[p].optionIndex])
            /\ inflight' = [inflight EXCEPT ![p] = VoteAnswer(inflight[p], Null, TRUE)]
       ELSE /\ votes' = votes
            /\ inflight' = [inflight EXCEPT ![p] =
                                VoteAnswer(inflight[p], "insert failed", FALSE)]
    /\ UNCHANGED <<now, ipLimitStore, emailLimitStore, cookieJar, knownDevices, last,
                   window, tracked>>

NextVotes ==
    \/ \E p \in Requests, user \in Voters, pollId \in PollIds,
          optionIndex \in OptionIndexes : SubmitVote(p, user, pollId, optionIndex)
    \/ \E p \in Requests : FindPoll(p)
    \/ \E p \in Requests : FindExistingVote(p)
    \/ \E p \in Requests, accepted \in BOOLEAN : InsertVote(p, accepted)

SpecVotes == Init /\ [][NextVotes]_vars

NextRace ==
    \/ \E p \in Requests, email \in Emails : ReceiveRequest(p, email)
    \/ \E p \in Requests : TrackFailedAttemptStep(p)
    \/ \E p \in Requests : DeliverResponse(p)

SpecRace == Init /\ [][NextRace]_vars

-----------------------------------------------------------------------------
(* Properties of the rate limiter *)

\* the last operation was a call of checkRateLimit
CheckedLast == last.op = "checkRateLimit"

\* the store the last check worked on
StoreOf(name) == IF name = "ip" THEN ipLimitStore ELSE emailLimitStore

\* the place of the last check among the checks of its window
NthInWindow == CallsInWindow(window[last.store], last.identifier, now)

\* C1: a check that is the Nth of its window with N > MAX_ATTEMPTS answers
\* limited = true and remaining = 0, in either store.
C1_LimitedBeyondMax ==
    CheckedLast /\ NthInWindow > MAX_ATTEMPTS
        => last.result.limited /\ last.result.remaining = 0

\* C1 happens: a sixth check inside one window, made later than the first
C1_Witness ==
    /\ CheckedLast
    /\ NthInWindow = MAX_ATTEMPTS + 1
    /\ now > window[last.store][last.identifier].start
    /\ last.result.limited

\* C2, as claimed: once the record holds MAX_ATTEMPTS, every check made no more
\* than LOCKOUT_MS after its lastAttempt answers limited = true.
C2_LockedForLockout ==
    /\ CheckedLast
    /\ last.before # << >>
    /\ last.before[1].count >= MAX_ATTEMPTS
    /\ now - last.before[1].lastAttempt <= LOCKOUT_MS
    => last.result.limited

\* C3: a check of a record that holds MAX_ATTEMPTS, made more than LOCKOUT_MS
\* after its lastAttempt, leaves count = 1, firstAttempt = lastAttempt = now and
\* answers limited = false.
C3_ReleasedAfterLockout ==
    /\ CheckedLast
    /\ last.before # << >>
    /\ last.before[1].count >= MAX_ATTEMPTS
    /\ now - last.before[1].lastAttempt > LOCKOUT_MS
    => /\ StoreOf(last.store)[last.identifier]
              = [count |-> 1, firstAttempt |-> now, lastAttempt |-> now]
       /\ ~last.result.limited

\* C3 happens: a locked record is checked after the lockout
C3_Witness ==
    /\ CheckedLast
    /\ last.before # << >>
    /\ last.before[1].count >= MAX_ATTEMPTS
    /\ now - last.before[1].lastAttempt > LOCKOUT_MS
    /\ ~last.result.limited

\* C4: a check of an identifier without record, or whose record began more than
\* WINDOW_MS ago, stores {count: 1, firstAttempt: now, lastAttempt: now} and
\* answers limited = false, remaining = MAX_ATTEMPTS - 1 = 4, whatever the old count.
C4_FreshRecord ==
    /\ CheckedLast
    /\ \/ last.before = << >>
       \/ now - last.before[1].firstAttempt > WINDOW_MS
    => /\ StoreOf(last.store)[last.identifier]
              = [count |-> 1, firstAttempt |-> now, lastAttempt |-> now]
       /\ last.result = [limited |-> FALSE, remaining |-> 4]

\* C4 happens: a record that holds MAX_ATTEMPTS is checked after its window
C4_Witness ==
    /\ CheckedLast
    /\ last.before # << >>
    /\ last.before[1].count = MAX_ATTEMPTS
    /\ now - last.before[1].firstAttempt > WINDOW_MS
    /\ last.result.remaining = 4

-----------------------------------------------------------------------------
(* Properties of login and register *)

\* C5: a login attempt whose IP check or e-mail check is limited, or for which
\* isAccountLocked(email) is true, returns an error and never calls
\* signInWithPassword; a register attempt whose IP check or e-mail check is
\* limited never calls signUp.
C5_BlockedBeforeProvider ==
    /\ last.op = "login"
         /\ (last.ipCheck.limited \/ last.emailCheck.limited \/ last.locked)
         => last.error # Null /\ ~last.providerCalled
    /\ last.op = "register"
         /\ (last.ipCheck.limited \/ last.emailCheck.limited)
         => last.error # Null /\ ~last.providerCalled

\* C5 happens: a login from a limited address for an e-mail that is not limited
C5_Witness ==
    /\ last.op = "login"
    /\ last.ipCheck.limited
    /\ ~last.emailCheck.limited
    /\ ~last.locked
    /\ ~last.providerCalled

\* the last operation was a login for an e-mail after five failed logins for it,
\* all of them and this attempt inside 15 minutes
SixthAttempt ==
    /\ last.op = "login"
    /\ last.failedBefore >= 5
    /\ now - last.failedSince <= 15 * 60 * 1000

\* C6: the login attempt that follows five failed login attempts for the same
\* e-mail inside 15 minutes is rejected with the account-locked message, whatever
\* the rate limiter says.
C6_RejectedByTracker == SixthAttempt => last.error = AccountLockedMessage

-----------------------------------------------------------------------------
(* Properties of the failed-attempt tracker *)

\* the count the program reads for an identifier
FailedCount(e) == ReadAttempts(cookieJar, CookieKeys[e], now)

\* the last operation was the given call for identifier e
Called(op, e) == last.op = op /\ last.identifier = e

\* every call of trackFailedAttempt returns and stores the value read before
\* plus 1, resetFailedAttempts stores 0, and no value is negative
TrackerWrites(e) ==
    /\ Called("trackFailedAttempt", e)'
         => /\ last'.result = FailedCount(e) + 1
            /\ FailedCount(e)' = last'.result
    /\ Called("resetFailedAttempts", e)' => FailedCount(e)' = 0
    /\ FailedCount(e)' >= 0

\* C7, as claimed: the counter of an identifier never decreases unless
\* resetFailedAttempts is called for it; every trackFailedAttempt returns and
\* stores the previous value plus 1, resetFailedAttempts stores 0, and the
\* value is never negative.
C7_MonotoneUntilReset ==
    [][\A e \in Emails :
          /\ TrackerWrites(e)
          /\ FailedCount(e)' < FailedCount(e) => Called("resetFailedAttempts", e)'
      ]_vars

\* C7, amended: the counter of an identifier decreases only when
\* resetFailedAttempts is called for it or when its cookie expires (then it
\* reads 0); the rest as claimed.
C7_MonotoneUntilResetOrExpiry ==
    [][\A e \in Emails :
          /\ TrackerWrites(e)
          /\ FailedCount(e)' < FailedCount(e)
               => \/ Called("resetFailedAttempts", e)'
                  \/ /\ last'.op = "advance"
                     /\ CookieKeys[e] \in last'.expired
                     /\ FailedCount(e)' = 0
      ]_vars

\* C7 happens: a third failed attempt in a row is recorded
C7_Witness ==
    /\ last.op = "trackFailedAttempt"
    /\ last.previous = 2
    /\ last.result = 3
    /\ now > 0

\* C8: isAccountLocked(id) is true exactly if the failed attempts recorded for
\* id (none or expired counting as 0) are 5 or more, and a call of it changes
\* no state.
C8_LockedIffFive ==
    [][/\ \A e \in Emails :
              IsAccountLocked(e, cookieJar', now') <=> TrackedCount(tracked', e, now') >= 5
       /\ last'.op = "isAccountLocked"
            => /\ last'.result = (TrackedCount(tracked, last'.identifier, now) >= 5)
               /\ UNCHANGED <<now, ipLimitStore, emailLimitStore, cookieJar, knownDevices>>
      ]_vars

\* C8 happens: isAccountLocked is called for a locked identifier
C8_Witness ==
    /\ last.op = "isAccountLocked"
    /\ last.result
    /\ TrackedCount(tracked, last.identifier, now) >= 5

\* C9: the counter of an identifier lives 15 minutes from its last write,
\* whatever was written; before that it reads what was written, after it it
\* reads 0 and the account is not locked.
C9_ExpiresAfterLastWrite ==
    \A e \in Emails :
        IF MapHas(tracked, e) /\ now - tracked[e].at < 15 * 60 * 1000
        THEN /\ FailedCount(e) = tracked[e].count
             /\ cookieJar[CookieKeys[e]].expires = tracked[e].at + 15 * 60 * 1000
        ELSE /\ FailedCount(e) = 0
             /\ ~IsAccountLocked(e, cookieJar, now)

\* C9 happens: the cookie of a locked identifier has just expired, its last
\* write later than its first
C9_Witness ==
    /\ last.op = "advance"
    /\ \E e \in Emails :
          /\ CookieKeys[e] \in last.expired
          /\ MapHas(tracked, e)
          /\ tracked[e].count >= 5
          /\ tracked[e].at > tracked[e].since
          /\ ~IsAccountLocked(e, cookieJar, now)

-----------------------------------------------------------------------------
(* Properties of the device list *)

KnownIn(devices, fingerprint) ==
    \E i \in 1..Len(devices) : devices[i].fingerprint = fingerprint

\* C10: no device list holds a fingerprint twice; checkDeviceVerification with a
\* recorded fingerprint answers known, keeps the list's length and changes only
\* that entry's lastSeen; with a new fingerprint it appends one entry and answers
\* not known, verification required.
C10_OneEntryPerFingerprint ==
    /\ \A u \in DOMAIN knownDevices :
          \A i, j \in 1..Len(knownDevices[u]) :
              knownDevices[u][i].fingerprint = knownDevices[u][j].fingerprint => i = j
    /\ last.op = "checkDeviceVerification"
         => LET before == last.before
                after == knownDevices[last.userId]
            IN  IF KnownIn(before, last.fingerprint)
                THEN /\ last.result = [isKnownDevice |-> TRUE, requiresVerification |-> FALSE]
                     /\ Len(after) = Len(before)
                     /\ \A i \in 1..Len(before) :
                           after[i] = IF before[i].fingerprint = last.fingerprint
                                      THEN [before[i] EXCEPT !.lastSeen = now]
                                      ELSE before[i]
                ELSE /\ last.result = [isKnownDevice |-> FALSE, requiresVerification |-> TRUE]
                     /\ after = Append(before, [fingerprint |-> last.fingerprint,
                                                userAgent |-> last.userAgent,
                                                lastSeen |-> now])

\* C10 happens: the second of two recorded devices is seen again, later
C10_Witness ==
    /\ last.op = "checkDeviceVerification"
    /\ Len(last.before) = 2
    /\ last.before[2].fingerprint = last.fingerprint
    /\ last.before[2].lastSeen < now
    /\ last.result.isKnownDevice

-----------------------------------------------------------------------------
(* Properties of the suspicion check *)

\* the count a sent cookie value stands for
CountSent ==
    (<< >> :> 0) @@ (<< "0" >> :> 0) @@ (<< "1" >> :> 1) @@ (<< "2" >> :> 2)
        @@ (<< "3" >> :> 3) @@ (<< "1", "2" >> :> 12)

\* C11: checkSuspiciousActivity answers true exactly if the failed-attempt count
\* it reads is 3 or more, or the fingerprint is not in the user's device list and
\* the count is above 0; a call changes no state.
C11_SuspiciousIff ==
    [][last'.op = "checkSuspiciousActivity" /\ last'.sent \in DOMAIN CountSent
          => /\ last'.result
                  <=> \/ CountSent[last'.sent] >= 3
                      \/ /\ ~ (/\ last'.userId \in DOMAIN knownDevices
                               /\ KnownIn(knownDevices[last'.userId], last'.fingerprint))
                         /\ CountSent[last'.sent] > 0
             /\ UNCHANGED <<now, ipLimitStore, emailLimitStore, cookieJar, knownDevices>>
      ]_vars

\* C11 happens: a count of 1 or 2 with a fingerprint that is new to a user who
\* has a device on record is suspicious
C11_Witness ==
    /\ last.op = "checkSuspiciousActivity"
    /\ last.sent \in { << "1" >>, << "2" >> }
    /\ last.userId \in DOMAIN knownDevices
    /\ ~KnownIn(knownDevices[last.userId], last.fingerprint)
    /\ last.result

-----------------------------------------------------------------------------
(* Properties of the error classifier *)

\* the message of the error classified last, "" for null and for an object
\* without one
GivenMessage ==
    IF last.error.kind = "string" THEN last.error.text
    ELSE IF last.error.kind = "object" THEN last.error.message
    ELSE ""

Contains(pattern) == Includes(GivenMessage, pattern)

\* C12: parseAuthError answers by the first row that matches: "Invalid login
\* credentials", then "Too many requests" (with retryAfter 900), then "Email not
\* confirmed", each with its fixed message; any other non-empty message gives
\* unknown with the message as it is; null and the empty string give unknown with
\* "Unknown error"; the type is never account_locked or network_error.
C12_FirstMatchingRow ==
    last.op = "parseAuthError"
        => /\ DOMAIN last.result \in { {"message", "type"}, {"message", "type", "retryAfter"} }
           /\ last.result.type \in AuthErrorTypes \ { "account_locked", "network_error" }
           /\ Contains("Invalid login credentials")
                => last.result = [message |-> "Invalid email or password",
                                  type |-> "invalid_credentials"]
           /\ ~Contains("Invalid login credentials") /\ Contains("Too many requests")
                => last.result = [message |-> "Too many attempts. Please try again later",
                                  type |-> "rate_limited", retryAfter |-> 900]
           /\ (/\ ~Contains("Invalid login credentials")
               /\ ~Contains("Too many requests")
               /\ Contains("Email not confirmed"))
                => last.result = [message |-> "Please verify your email before logging in",
                                  type |-> "verification_required"]
           /\ (/\ ~Contains("Invalid login credentials")
               /\ ~Contains("Too many requests")
               /\ ~Contains("Email not confirmed")
               /\ GivenMessage # "")
                => last.result = [message |-> GivenMessage, type |-> "unknown"]
           /\ (last.error = NullError \/ last.error = StringError(""))
                => last.result = [message |-> "Unknown error", type |-> "unknown"]

\* C12 happens: a message that holds two of the texts is classified by the
\* first of the table, not by the first in the message
C12_Witness ==
    /\ last.op = "parseAuthError"
    /\ last.error.kind = "object"
    /\ last.error.message = "Too many requests: Invalid login credentials"
    /\ last.result.type = "invalid_credentials"

-----------------------------------------------------------------------------
(* Properties of the role checks *)

\* the role a caller with a user resolves to: the stored role, user if the
\* lookup failed or found no row
ResolvedRole(lookup) ==
    IF lookup.error \/ lookup.data = << >> THEN "user" ELSE lookup.data[1].role

\* C13: checkUserRole(requiredRole) authorizes exactly a caller with a user whose
\* resolved role is requiredRole; without a user it answers unauthorized with
\* role null; an admin is not authorized for user, and a failed lookup never
\* authorizes for admin.
C13_ExactRole ==
    last.op = "checkUserRole"
        => /\ last.result.authorized
                <=> last.user # << >> /\ ResolvedRole(last.lookup) = last.requiredRole
           /\ last.result.role = IF last.user = << >> THEN Null
                                 ELSE ResolvedRole(last.lookup)
           /\ last.user = << >> => last.result = [authorized |-> FALSE, role |-> Null]
           /\ last.result.role = "admin" /\ last.requiredRole = "user"
                => ~last.result.authorized
           /\ last.lookup.error /\ last.requiredRole = "admin"
                => ~last.result.authorized

\* C13 happens: an admin asks for a resource that requires user and is refused
C13_Witness ==
    /\ last.op = "checkUserRole"
    /\ last.user # << >>
    /\ ~last.lookup.error
    /\ last.result.role = "admin"
    /\ last.requiredRole = "user"
    /\ ~last.result.authorized

\* C14: the admin layout renders its children exactly for a caller with a user
\* whose role resolves to admin; every other caller is redirected and nothing is
\* rendered.
C14_AdminOnly ==
    last.op = "AdminLayout"
        => /\ last.result.rendered
                <=> last.user # << >> /\ ResolvedRole(last.lookup) = "admin"
           /\ ~last.result.rendered <=> last.result.redirect = "/"

\* C14 happens: a caller whose role resolves to moderator is redirected
C14_Witness ==
    /\ last.op = "AdminLayout"
    /\ last.user # << >>
    /\ ResolvedRole(last.lookup) = "moderator"
    /\ ~last.result.rendered
    /\ last.result.redirect = "/"

\* C15: when the role check refuses, withRoleProtection throws (or redirects) and
\* the code after the guard does not run; it returns only for an authorized
\* caller.
C15_NoFallThrough ==
    /\ last.op = "withRoleProtection"
         => LET authorized ==
                    last.user # << >> /\ ResolvedRole(last.lookup) = last.requiredRole
            IN  /\ last.guard.threw <=> ~authorized
                /\ last.bodyRan <=> authorized
                /\ last.guard.threw => last.guard.error # Null
    /\ last.op = "protectRoute"
         => LET authorized ==
                    /\ last.session # << >>
                    /\ last.profile # << >>
                    /\ last.profile[1].role \in last.requiredRoles
            IN  /\ last.guard.threw <=> ~authorized
                /\ last.bodyRan <=> authorized

\* C15 happens: the guard of an operation that requires admin throws for a
\* caller whose role lookup failed
C15_Witness ==
    /\ last.op = "withRoleProtection"
    /\ last.requiredRole = "admin"
    /\ last.user # << >>
    /\ last.lookup.error
    /\ last.guard.threw
    /\ ~last.bodyRan

-----------------------------------------------------------------------------
(* Properties of login and register: what they return, write and log *)

\* the last operation was a login that no check blocked
LoginPassedGate ==
    /\ last.op = "login"
    /\ ~last.ipCheck.limited
    /\ ~last.emailCheck.limited
    /\ ~last.locked

\* the last operation asked the identity provider and got an error
ProviderRejected ==
    /\ last.providerCalled
    /\ "providerError" \in DOMAIN last
    /\ last.providerError # Null

\* the last operation asked the identity provider and got no error
ProviderAccepted ==
    /\ last.providerCalled
    /\ "providerError" \in DOMAIN last
    /\ last.providerError = Null

\* C16: a login that no check blocks and the identity provider accepts returns
\* no error, whatever the device check and the suspicion check answer (they add
\* a log line, nothing else), and leaves the failed-attempt counter of the
\* e-mail at 0.
C16_SuccessResetsCounter ==
    LoginPassedGate
        => /\ last.providerCalled
           /\ ProviderAccepted
                => /\ last.error = Null
                   /\ last.cookiesSet = (CookieKeys[last.email] :> << "0" >>)
                   /\ last.cookies
                        => /\ FailedCount(last.email) = 0
                           /\ TrackedCount(tracked, last.email, now) = 0
                   /\ last.logged
                        = IF ~last.device.isKnownDevice \/ last.isSuspicious
                          THEN << NewDeviceLine >> ELSE << >>

\* C16 happens: a login from a known device with a suspicious count succeeds
\* after failed attempts
C16_Witness ==
    /\ LoginPassedGate
    /\ ProviderAccepted
    /\ last.failedBefore > 0
    /\ last.device.isKnownDevice
    /\ last.isSuspicious
    /\ last.error = Null

\* C17: a login the identity provider rejects writes the counter it read plus 1
\* for the submitted e-mail, leaves the device lists as they are, and returns
\* the provider's message.
C17_FailureCountsOne ==
    [][(last'.op = "login" /\ ProviderRejected')
          => /\ last'.error = last'.providerError
             /\ knownDevices' = knownDevices
             /\ IF last'.cookies
                THEN /\ ReadAttempts(cookieJar', CookieKeys[last'.email], now')
                          = FailedCount(last'.email) + 1
                     /\ last'.cookiesSet
                          = (CookieKeys[last'.email]
                               :> NumberToString(FailedCount(last'.email) + 1))
                     /\ TrackedCount(tracked', last'.email, now')
                          = TrackedCount(tracked, last'.email, now) + 1
                ELSE last'.cookiesSet = (CookieKeys[last'.email] :> << "1" >>)
      ]_vars

\* C17 happens: a third failed login in a row, with a device on record
C17_Witness ==
    /\ last.op = "login"
    /\ ProviderRejected
    /\ last.cookies
    /\ last.failedBefore = 2
    /\ FailedCount(last.email) = 3
    /\ knownDevices # EmptyMap

\* C18: every error of the identity provider, in login and in register, is
\* classified and logged before the answer, and the answer carries the
\* classifier's message.
C18_ClassifiedAndLogged ==
    last.op \in { "login", "register" } /\ ProviderRejected
        => /\ Len(last.logged) = 1
           /\ last.logged[1].error = last.providerError
           /\ last.error = ParseAuthError(ProviderError(last.providerError)).message

\* what the two handlers do with an error of the identity provider: register
\* classifies it, logs it and answers with the classifier's message; login logs
\* nothing and answers with the provider's message as it is
RegisterClassifiesLoginDoesNot ==
    /\ last.op = "register" /\ ProviderRejected
         => LET parsed == ParseAuthError(ProviderError(last.providerError))
            IN  /\ Len(last.logged) = 1
                /\ last.logged[1].level = "error"
                /\ last.logged[1].error = last.providerError
                /\ last.logged[1].context.action = "register"
                /\ last.logged[1].context.errorType = parsed.type
                /\ last.error = parsed.message
    /\ last.op = "login" /\ ProviderRejected
         => /\ last.logged = << >>
            /\ last.error = last.providerError

\* register answers a provider error with a message that is not the provider's
RegisterSanitizes ==
    /\ last.op = "register"
    /\ ProviderRejected
    /\ last.providerError = "Too many requests"
    /\ last.error = "Too many attempts. Please try again later"
    /\ last.logged[1].context.errorType = "rate_limited"

\* C19: register lets no exception out: an exception at any step is logged and
\* answered with the one generic message; a provider error is answered with the
\* classifier's message; a success records the device, evaluates no suspicion
\* and answers without error.
C19_RegisterCatchesAll ==
    last.op = "register"
        => /\ ~last.escaped
           /\ last.fault # "none"
                => /\ last.error = "An unexpected error occurred. Please try again later."
                   /\ Len(last.logged) = 1
                   /\ last.logged[1].error = "Error: " \o last.fault \o " failed"
                   /\ last.logged[1].context = [action |-> "register", unexpected |-> TRUE]
           /\ last.fault = "none" /\ ProviderRejected
                => last.error = ParseAuthError(ProviderError(last.providerError)).message
           /\ last.fault = "none" /\ ProviderAccepted
                => /\ last.error = Null
                   /\ ~last.suspicionChecked
                   /\ last.deviceRecorded
                        => KnownIn(knownDevices[UserIdOf(last.email)],
                                   FingerprintOf[<< "F", "x" >>, last.ip])

\* C19 happens: recording the device raises an exception after the identity
\* provider created the user
C19_Witness ==
    /\ last.op = "register"
    /\ last.fault = "checkDeviceVerification"
    /\ last.providerCalled
    /\ ~last.escaped
    /\ last.error = "An unexpected error occurred. Please try again later."

-----------------------------------------------------------------------------
(* Failed attempts handled at the same time *)

\* both requests are answered, were for the same identifier, and were sent when
\* the browser held the same count
AnsweredAlike(p, q) ==
    /\ p # q
    /\ inflight[p].pc = "done"
    /\ inflight[q].pc = "done"
    /\ inflight[p].identifier = inflight[q].identifier
    /\ inflight[p].seen = inflight[q].seen

\* C20: reading and writing the failed-attempt counter is not atomic: two failed
\* attempts for one identifier that are handled at the same time both read the
\* count their requests were sent with and both write that count plus 1, so the
\* counter ends 1 higher, not 2.
C20_LostUpdate ==
    \A p, q \in Requests :
        AnsweredAlike(p, q)
            => /\ inflight[p].read = inflight[p].seen
               /\ inflight[q].read = inflight[p].seen
               /\ FailedCount(inflight[p].identifier) = inflight[p].seen + 1

\* C20 happens: both requests read 4 and wrote 5; six failed attempts were made
\* and the counter says 5
C20_Witness ==
    \E e \in Emails :
        /\ AnsweredAlike(1, 2)
        /\ inflight[1].identifier = e
        /\ inflight[1].read = 4
        /\ inflight[2].read = 4
        /\ FailedCount(e) = 5
        /\ TrackedCount(tracked, e, now) = 6

-----------------------------------------------------------------------------
(* More properties of the rate limiter *)

\* the record the last check left for its identifier
RecordAfter == StoreOf(last.store)[last.identifier]

\* the last check found a record inside its window with attempts left
OnIncrementPath ==
    /\ CheckedLast
    /\ last.before # << >>
    /\ now - last.before[1].firstAttempt <= WINDOW_MS
    /\ last.before[1].count < MAX_ATTEMPTS

\* the last check found a record inside its window with no attempt left
FoundExhausted ==
    /\ CheckedLast
    /\ last.before # << >>
    /\ now - last.before[1].firstAttempt <= WINDOW_MS
    /\ last.before[1].count >= MAX_ATTEMPTS

\* C21: a check that finds a record inside its window with count below
\* MAX_ATTEMPTS adds 1 to count, sets lastAttempt to now, keeps firstAttempt,
\* and answers remaining = MAX_ATTEMPTS - count and limited exactly when the new
\* count has reached MAX_ATTEMPTS; checks 1 to 4 of a window are not limited and
\* the 5th is.
C21_IncrementPath ==
    /\ OnIncrementPath
         => /\ RecordAfter.count = last.before[1].count + 1
            /\ RecordAfter.lastAttempt = now
            /\ RecordAfter.firstAttempt = last.before[1].firstAttempt
            /\ last.result.remaining = MAX_ATTEMPTS - RecordAfter.count
            /\ last.result.limited <=> RecordAfter.count >= MAX_ATTEMPTS
    /\ CheckedLast /\ NthInWindow < MAX_ATTEMPTS => ~last.result.limited
    /\ CheckedLast /\ NthInWindow = MAX_ATTEMPTS => last.result.limited

\* C21 happens: the fifth check of a window, later than the fourth, is limited
C21_Witness ==
    /\ OnIncrementPath
    /\ NthInWindow = MAX_ATTEMPTS
    /\ last.before[1].count = MAX_ATTEMPTS - 1
    /\ now > last.before[1].lastAttempt
    /\ RecordAfter.firstAttempt < now
    /\ last.result.limited

\* C22: every call of checkIpRateLimit or checkEmailRateLimit changes the record
\* of its identifier, calls that answer limited = true included.
C22_EveryCheckMutates ==
    CheckedLast => << RecordAfter >> # last.before

\* C22, amended: a check changes the record of its identifier unless it finds
\* that record inside its window with count at MAX_ATTEMPTS; such a check
\* answers limited = true and leaves the record as it is. The check that brings
\* count to MAX_ATTEMPTS answers limited = true and does change the record.
C22_MutatesUnlessExhausted ==
    CheckedLast
        => /\ (<< RecordAfter >> = last.before) <=> FoundExhausted
           /\ FoundExhausted => last.result.limited

\* C22 happens: a limited check that changes the record, then a limited check,
\* later, that does not
C22_Witness ==
    /\ FoundExhausted
    /\ NthInWindow = MAX_ATTEMPTS + 1
    /\ now > last.before[1].lastAttempt
    /\ last.result.limited
    /\ << RecordAfter >> = last.before

\* C27: every record of the two stores has 1 <= count <= MAX_ATTEMPTS and
\* firstAttempt <= lastAttempt, and every remaining a check returns lies in
\* 0..MAX_ATTEMPTS-1 and equals MAX_ATTEMPTS minus the stored count.
C27_RecordsInRange ==
    /\ \A name \in StoreNames : \A id \in DOMAIN StoreOf(name) :
           /\ StoreOf(name)[id].count \in 1..MAX_ATTEMPTS
           /\ StoreOf(name)[id].firstAttempt <= StoreOf(name)[id].lastAttempt
    /\ CheckedLast
         => /\ last.result.remaining \in 0..(MAX_ATTEMPTS - 1)
            /\ last.result.remaining = MAX_ATTEMPTS - RecordAfter.count

\* C27 happens: a record that began after the first window is filled up by
\* checks at different times
C27_Witness ==
    /\ CheckedLast
    /\ now > StepMs
    /\ RecordAfter.count = MAX_ATTEMPTS
    /\ RecordAfter.firstAttempt < RecordAfter.lastAttempt
    /\ RecordAfter.firstAttempt > 0
    /\ last.result.remaining = 0

-----------------------------------------------------------------------------
(* The two limiters in login and register *)

\* the record a store holds for an identifier after exactly one check at time t
\* of the record it held before
OneCheckLater(before, after, t) ==
    IF before = << >> \/ t - before[1].firstAttempt > WINDOW_MS
    THEN after = << [count |-> 1, firstAttempt |-> t, lastAttempt |-> t] >>
    ELSE IF before[1].count >= MAX_ATTEMPTS
    THEN after = before
    ELSE after = << [count |-> before[1].count + 1,
                     firstAttempt |-> before[1].firstAttempt,
                     lastAttempt |-> t] >>

\* the store holds what it held, but for the one identifier
OthersKept(before, after, identifier) ==
    /\ DOMAIN after = DOMAIN before \cup { identifier }
    /\ \A id \in DOMAIN before : id # identifier => after[id] = before[id]

\* C23: every login or register attempt makes one check of the IP store and
\* one of the e-mail store before it looks at either answer, so an attempt one
\* limiter blocks still counts in the other; a check of one store leaves the
\* other store, and the records of other identifiers, as they are.
C23_BothStoresChecked ==
    [][/\ last'.op \in { "login", "register" }
          => /\ OneCheckLater(RecordOrNone(ipLimitStore, last'.ip),
                              RecordOrNone(ipLimitStore', last'.ip), now)
             /\ OneCheckLater(RecordOrNone(emailLimitStore, last'.email),
                              RecordOrNone(emailLimitStore', last'.email), now)
             /\ OthersKept(ipLimitStore, ipLimitStore', last'.ip)
             /\ OthersKept(emailLimitStore, emailLimitStore', last'.email)
             /\ last'.ipCheck.limited => ~last'.providerCalled
             /\ last'.emailCheck.limited => ~last'.providerCalled
       /\ last'.op = "checkRateLimit" /\ last'.store = "ip"
          => /\ emailLimitStore' = emailLimitStore
             /\ OthersKept(ipLimitStore, ipLimitStore', last'.identifier)
       /\ last'.op = "checkRateLimit" /\ last'.store = "email"
          => /\ ipLimitStore' = ipLimitStore
             /\ OthersKept(emailLimitStore, emailLimitStore', last'.identifier)
      ]_vars

\* C23 happens: the IP limiter blocks a login for a second e-mail address, whose
\* record is written all the same, next to the record of the first address
C23_Witness ==
    /\ last.op = "login"
    /\ last.ipCheck.limited
    /\ ~last.emailCheck.limited
    /\ ~last.providerCalled
    /\ Cardinality(DOMAIN emailLimitStore) = 2
    /\ Cardinality(DOMAIN ipLimitStore) = 2
    /\ emailLimitStore[last.email].lastAttempt = now
    /\ emailLimitStore[last.email].count = 1

\* the check that blocked the last attempt, and the record it was made on
BlockingCheck == IF last.ipCheck.limited THEN last.ipCheck ELSE last.emailCheck
BlockingRecord ==
    IF last.ipCheck.limited THEN ipLimitStore[last.ip] ELSE emailLimitStore[last.email]

\* C24: every answer of login or register that a rate limiter blocks carries a
\* computed time to wait: the check's result has timeRemaining =
\* ceil((LOCKOUT_MS - (now - lastAttempt)) / 1000) and the message names the
\* minutes that remain.
C24_RetryAfter ==
    /\ last.op \in { "login", "register" }
    /\ last.ipCheck.limited \/ last.emailCheck.limited
    => /\ "timeRemaining" \in DOMAIN BlockingCheck
       /\ BlockingCheck.timeRemaining
            = CeilDiv(LOCKOUT_MS - (now - BlockingRecord.lastAttempt), 1000)
       /\ last.error = "Too many attempts. Please try again in "
                       \o ToString(CeilDiv(BlockingCheck.timeRemaining, 60))
                       \o " minutes."

-----------------------------------------------------------------------------
(* The fingerprint *)

\* C25: generateFingerprint gives equal fingerprints for equal pairs of user
\* agent and address and different fingerprints for different pairs, the
\* separator ':' inside a user agent or an address included.
C25_FingerprintInjective ==
    [][last.op = "generateFingerprint" /\ last'.op = "generateFingerprint"
          => ((last.userAgent = last'.userAgent /\ last.ip = last'.ip)
                 <=> last.result = last'.result)
      ]_vars

-----------------------------------------------------------------------------
(* The suspicion check and the tracker *)

\* C26: the count checkSuspiciousActivity evaluates is the count the tracker
\* keeps for the account: where the tracker's count is n, the suspicion check
\* for the account's user reads n; during login it judges the device by the
\* list as it was before the login recorded the fingerprint.
C26_SuspicionReadsTracker ==
    /\ last.op = "checkSuspiciousActivity"
         => \A e \in Emails :
                UserIdOf(e) = last.userId
                    => ReadSuspicionCount(last.userId, cookieJar, now)
                         = [nan |-> FALSE, value |-> FailedCount(e)]
    /\ last.op = "login" /\ ProviderAccepted /\ "isSuspicious" \in DOMAIN last
         => (last.isSuspicious
               <=> \/ FailedCount(last.email) >= 3
                   \/ ~last.device.isKnownDevice /\ FailedCount(last.email) > 0)

-----------------------------------------------------------------------------
(* Attempts that reach the identity provider *)

\* the history of the windows agrees with the stores: a record's window began
\* at its firstAttempt
WindowsAreRecords ==
    \A name \in StoreNames : \A id \in DOMAIN StoreOf(name) :
        /\ MapHas(window[name], id)
        /\ window[name][id].start = StoreOf(name)[id].firstAttempt

\* C28: in one window of one e-mail address (WINDOW_MS from the record's
\* firstAttempt) at most MAX_ATTEMPTS - 1 = 4 attempts of login and register
\* reach the identity provider, whatever their outcome; likewise for one client
\* IP. Every attempt is one check of its window, and an attempt that reaches the
\* provider is among the first four.
C28_FourReachProvider ==
    /\ WindowsAreRecords
    /\ last.op \in { "login", "register" } /\ last.providerCalled
         => /\ CallsInWindow(window["email"], last.email, now) <= MAX_ATTEMPTS - 1
            /\ CallsInWindow(window["ip"], last.ip, now) <= MAX_ATTEMPTS - 1

\* C28 happens: the fourth attempt of a window, made later than the first,
\* reaches the provider and is accepted
C28_Witness ==
    /\ last.op = "login"
    /\ ProviderAccepted
    /\ CallsInWindow(window["email"], last.email, now) = MAX_ATTEMPTS - 1
    /\ CallsInWindow(window["ip"], last.ip, now) < MAX_ATTEMPTS - 1
    /\ emailLimitStore[last.email].firstAttempt < now

-----------------------------------------------------------------------------
(* Checks of attempts handled at the same time *)

\* the smaller of two numbers
Min(a, b) == IF a < b THEN a ELSE b

\* C29: a rate-limit check is one step, so however the handlers of login and
\* register requests interleave, the count a store holds for an identifier is
\* the number of checks made for it in its window, capped at MAX_ATTEMPTS: no
\* check is lost.
C29_NoCheckLost ==
    \A name \in StoreNames : \A id \in DOMAIN StoreOf(name) :
        /\ MapHas(window[name], id)
        /\ window[name][id].start = StoreOf(name)[id].firstAttempt
        /\ StoreOf(name)[id].count = Min(window[name][id].calls, MAX_ATTEMPTS)

\* C29 happens: two requests for one e-mail address arrive before either is
\* checked; after both checks the record holds both, in a second window
C29_Witness ==
    /\ inflight[1].pc = "checked"
    /\ inflight[2].pc = "checked"
    /\ inflight[1].email = inflight[2].email
    /\ emailLimitStore[inflight[1].email].firstAttempt > 0
    /\ emailLimitStore[inflight[1].email].count = 2
    /\ window["email"][inflight[1].email].calls = 2

-----------------------------------------------------------------------------
(* Votes *)

\* C30: however calls of submitVote follow and interleave, a logged-in user has
\* at most one row in votes per poll; a call by a user who has a vote on the
\* poll answers "You have already voted on this poll" and inserts nothing, and
\* a call for a poll that does not exist answers "Poll not found" and inserts
\* nothing.
C30_OneVotePerUser ==
    /\ \A user \in Voters \ { << >> }, pollId \in PollIds :
           Cardinality(VotesOf(votes, pollId, user)) <= 1
    /\ \A p \in Requests :
           inflight[p].pc = "done"
               => /\ inflight[p].pollId \notin StoredPolls
                       => /\ inflight[p].error = "Poll not found"
                          /\ ~inflight[p].inserted
                  /\ (/\ inflight[p].pollId \in StoredPolls
                      /\ inflight[p].user # << >>
                      /\ inflight[p].votedBefore)
                       => /\ inflight[p].error = "You have already voted on this poll"
                          /\ ~inflight[p].inserted

====
